---- MODULE Spec2Model ----
(***************************************************************************)
(* Pulse: the POST /run endpoint (backend/app/api/pipeline.py), the        *)
(* fetch_and_post Celery task (worker/tasks.py) and the services the task  *)
(* calls: DeduplicationService, AdvancedSummarizer, LLMAdapter, XPoster.   *)
(* The relational store is shared by the API process and by the worker     *)
(* slots; every commit is a step other processes can interleave with.      *)
(***************************************************************************)
EXTENDS Integers, Sequences, FiniteSets, TLC

\* ---------------------------------------------------------------- bounds
MaxJobs == 2
NumWorkers == 2
MaxFetched == 2
MaxStored == 2
MaxSummaryLen == 40
MaxUrlLen == 280
MaxWindow == 1
LimMaxRequests == 2
LimTimeWindow == 3
MaxClock == 7
MaxRecords == 4
MaxFacadeCalls == 1
MaxSaves == 3
MaxPending == 6
MaxRunning == 6
MaxCompleted == 3
MaxFailed == 3
MaxTitleByte == 15
NumCallers == 2
MaxCreates == 2
MaxRuns == 3
MaxInteractions == 1
SecMaxRequests == 2
SecWindowSeconds == 3
MaxRanked == 6

\* ------------------------------------------------------ program constants
retry_attempts == 3
RetryDelayUnit == 60
FetchLimit == 10
SelectLimit == 5
TweetLimit == 280
SourcePrefixLen == 10
EllipsisLen == 3
XMaxRequests == 50
XTimeWindow == 3600
DefaultRetryCount == 3
MaxRetrySleep == 60
GoogleMaxRequests == 90
GoogleTimeWindow == 86400
NewsApiMaxRequests == 100
NewsApiTimeWindow == 3600

Jobs == 1..MaxJobs
Workers == 1..NumWorkers

\* A url that `if url:` treats as missing: the key is absent (NoUrl) or the
\* search-engine fetcher found no link and stored "" (EmptyUrl).
NoUrl == "no_url"
EmptyUrl == ""
Falsy(url) == url \in {NoUrl, EmptyUrl}
None == "None"

\* Fetched-article DTOs: content_hash stands for the digest of
\* title+description (two articles may share it under two urls); date_ok says
\* whether publishedAt parses as an ISO date.
Urls == {"u1", "u2", "u3"}
Hashes == {"h1", "h2", "h3"}

\* What the mock fetcher can return: a url and a parseable date, always.
MockDTOs ==
    { [url |-> "u1", content_hash |-> "h1", date_ok |-> TRUE],
      [url |-> "u1", content_hash |-> "h2", date_ok |-> TRUE],
      [url |-> "u2", content_hash |-> "h1", date_ok |-> TRUE] }

\* What the provider tiers can return: also items without a link, and items
\* whose published time is no ISO date.
ProviderDTOs ==
    MockDTOs \cup
    { [url |-> EmptyUrl, content_hash |-> "h1", date_ok |-> TRUE],
      [url |-> EmptyUrl, content_hash |-> "h2", date_ok |-> TRUE],
      [url |-> "u2", content_hash |-> "h2", date_ok |-> FALSE] }

SeqsUpTo(S, n) == UNION { [1..k -> S] : k \in 0..n }

Range(s) == { s[i] : i \in 1..Len(s) }

Min(a, b) == IF a < b THEN a ELSE b

VARIABLES
    settings,   \* WorkerSettings mock flags
    jobs,       \* jobs table: one row per job
    api,        \* position of the POST /run handler for each request
    queue,      \* task messages in the broker
    taskState,  \* state of each task in the result backend
    articles,   \* articles table, in insertion order
    posts,      \* posts table, in insertion order
    worker,     \* each worker slot: position and locals of fetch_and_post
    execs,      \* number of executions of fetch_and_post started per job
    retryLog,   \* the retries requested through self.retry
    lastRun,    \* outcome of the last finished execution per job
    tweets,     \* number of post_tweet invocations per job
    call,       \* the last direct call of a service method and its result
    clock,      \* time.time(), in whole seconds
    limiter,    \* an in-process RateLimiter: its requests list
    redis,      \* the distributed counter store of the network fetchers
    fetcher,    \* each process calling NewsFetcher.fetch_articles
    httpSent,   \* requests sent to each news provider, per fixed window
    config,     \* pipeline_configs table and its id sequence
    engine,     \* the ABTestingEngine of a worker process: its experiments
    ratekey,    \* the counter key of security.RateLimiter in its store
    guard,      \* each caller of security.RateLimiter.is_allowed: its position
    metrics     \* the gauges and counters of the API and worker processes

\* State of the adapters and of the configuration endpoint, which the
\* pipeline actions below leave alone.
components == <<engine, ratekey, guard, metrics>>

\* The adapters without the metrics, for the actions that count something.
services == <<clock, limiter, redis, fetcher, httpSent, config, engine,
              ratekey, guard>>

adapters == <<clock, limiter, redis, fetcher, httpSent, config, components>>

\* State of the API and of the pipeline, which the adapter actions leave
\* alone.
pipeline == <<settings, jobs, api, queue, taskState, articles, posts, worker,
              execs, retryLog, lastRun, tweets>>

vars == <<settings, jobs, api, queue, taskState, articles, posts, worker,
          execs, retryLog, lastRun, tweets, call, adapters>>

\* ------------------------------------------------------------ jobs table
NoJob ==
    [status |-> "absent", job_id |-> None, niche |-> None, rows |-> 0,
     started_at |-> FALSE, completed_at |-> FALSE, error_message |-> None,
     result |-> None]

\* The niche of the j-th POST /run request (RunRequest.niche): a niche is
\* requested twice in a row before the next one is.
Niches == <<"cybersecurity", "technology", "science">>

RequestNiche(j) == Niches[(((j - 1) \div 2) % Len(Niches)) + 1]

\* Lines 38-45 of run_pipeline: the row added and committed before enqueuing.
PendingJob(j) ==
    [NoJob EXCEPT !.status = "pending", !.job_id = "uuid",
                  !.niche = RequestNiche(j), !.rows = 1]

RenamedJobKeepsUuid(row) == row

\* Lines 57-59: db_job.job_id = task.id; db.commit() (an UPDATE of the row).
RenamedJob(row) == [row EXCEPT !.job_id = "task_id"]

\* ------------------------------------------------------- worker locals
EmptyResults ==
    [articles_fetched |-> 0, articles_processed |-> 0, posts_created |-> 0,
     posts_published |-> 0, errors |-> <<>>]

NoCheck == [by_url |-> FALSE, by_hash |-> FALSE, result |-> FALSE, done |-> FALSE]

\* No call of AdvancedSummarizer.process yet.
NoSummary ==
    [raised |-> FALSE, stage_error |-> FALSE, exc |-> None, content |-> None,
     facts |-> <<>>, confidence_score |-> 0, verification_status |-> None]

\* No execution of the task has finished yet.
NoRun ==
    [how |-> "none", retries |-> 0, job_found |-> FALSE,
     preview_mode |-> FALSE, exc |-> None, articles_fetched |-> 0]

IdleWorker ==
    [pc |-> "idle", job |-> 0, retries |-> 0, preview_mode |-> FALSE,
     job_found |-> FALSE, selected |-> <<>>,
     results |-> EmptyResults, needs_rollback |-> FALSE, exc |-> None,
     check |-> NoCheck, summary |-> NoSummary, chosen |-> 0, skipped |-> 0]

NoCall == [op |-> None]

\* ------------------------------------------------------- adapter state
\* RateLimiter.__init__: an empty requests list (log keeps every timestamp
\* ever recorded, requests only those the last pruning retained).
NewLimiter == [requests |-> <<>>, log |-> <<>>]

\* The services that count their requests in the distributed store.
Services == {"google_search", "newsapi"}

\* redis GET on a key that does not exist (or has expired) returns None.
NoKey == -1

\* The store keeps, per service, the counter of the window it was last
\* written in; the key of any other window does not exist.
NoCounters == [s \in Services |-> [window |-> 0, count |-> NoKey]]

\* Requests sent to each provider in the window of the last request.
NothingSent == [s \in Services |-> [window |-> 0, count |-> 0]]

\* A process that is not inside NewsFetcher.fetch_articles.
IdleFetcher == [pc |-> "idle", tier |-> None, mock_mode |-> FALSE,
                google |-> FALSE, newsapi |-> FALSE, tried |-> <<>>,
                calls |-> 0]

\* pipeline_configs before the first save.
\* ABTestingEngine.__init__: no experiment; runs, creates and interactions
\* count the calls made so far.
ExperimentIds == {"id_1", "id_2"}

NoExperiment == [exists |-> FALSE, variants |-> <<>>, runs |-> 0]

NewEngine ==
    [experiments |-> [e \in ExperimentIds |-> NoExperiment],
     creates |-> 0, runs |-> 0, interactions |-> 0]

\* The counter key of one client: absent (value NoKey, ttl KeyMissing), or
\* a count with its remaining seconds (Persistent: no expiry set).
KeyMissing == -2

Persistent == -1

\* granted counts the calls the key has let through since it was created.
NoStoreKey == [value |-> NoKey, ttl |-> KeyMissing, granted |-> 0]

Callers == 1..NumCallers

\* seen is the key as the caller's GET found it.
IdleCaller == [pc |-> "idle", current |-> NoKey, seen |-> NoStoreKey]

NoConfig == [rows |-> <<>>, next_id |-> 1, saved |-> <<>>, ids |-> <<>>]

\* WorkerMetrics and Metrics as constructed: active_tasks and
\* duplicate_articles_skipped_total of the worker, active_jobs of the API;
\* db_sessions counts the worker's open sessions and skipped the articles
\* that runs have skipped as duplicates.
NoMetrics ==
    [active_tasks |-> 0, duplicate_articles_skipped_total |-> 0,
     active_jobs |-> 0, db_sessions |-> 0, skipped |-> 0]

\* ------------------------------------------------- DeduplicationService
generate_content_hash(article_data) == article_data.content_hash

ExistsByUrl(table, url) == \E i \in 1..Len(table) : table[i].url = url

ExistsByHash(table, h) == \E i \in 1..Len(table) : table[i].content_hash = h

\* A variant that stops after the url lookup whenever the article has a url.
is_duplicate_url_decides(table, article_data) ==
    IF ~Falsy(article_data.url)
    THEN ExistsByUrl(table, article_data.url)
    ELSE ExistsByHash(table, generate_content_hash(article_data))

is_duplicate(table, article_data) ==
    LET url == article_data.url
        content_hash == generate_content_hash(article_data)
    IN  IF ~Falsy(url) /\ ExistsByUrl(table, url)
        THEN TRUE
        ELSE IF ExistsByHash(table, content_hash)
             THEN TRUE
             ELSE FALSE

\* A variant of the schema without the unique constraint on content_hash.
UniqueViolationUrlOnly(table, row) == ExistsByUrl(table, row.url)

\* Unique constraints of the articles table (url, content_hash).
UniqueViolation(table, row) ==
    \/ ExistsByUrl(table, row.url)
    \/ ExistsByHash(table, row.content_hash)


\* ------------------------------------------------------------ LLMAdapter
\* The methods LLMAdapter defines, and which of them are coroutine functions.
LLMAdapterMethods == {"summarize_article"}

LLMAdapterCoroutines == {}

\* LLMAdapter.summarize_article: the mock adapter (always last in the chain)
\* returns a canned summary, so the facade always returns a string.
summarize_article(article) == "summary"

\* `await x`: an awaitable yields its value, any other object raises TypeError.
Await(awaitable, value) ==
    IF awaitable
    THEN [raised |-> FALSE, value |-> value]
    ELSE [raised |-> TRUE, value |-> "TypeError"]

\* `await self.llm.<method>(...)`: attribute lookup, call, then await.
AwaitLLM(method, value) ==
    IF method \notin LLMAdapterMethods
    THEN [raised |-> TRUE, value |-> "AttributeError"]
    ELSE Await(method \in LLMAdapterCoroutines, value)

\* ---------------------------------------------------- AdvancedSummarizer
initial_summarization(article) == AwaitLLM("generate_text", "initial")

extract_facts(summary) == AwaitLLM("generate_text", <<>>)

refine_summary(summary, facts, article) == AwaitLLM("generate_text", "refined")

adjust_tone(summary, article) == AwaitLLM("generate_text", "toned")

basic_summarization(article) ==
    AwaitLLM("summarize_article", summarize_article(article))

\* The four stages in order; the first stage that raises ends the sequence.
FourStages(article) ==
    LET s1 == initial_summarization(article) IN
    IF s1.raised THEN s1 ELSE
    LET s2 == extract_facts(s1.value) IN
    IF s2.raised THEN s2 ELSE
    LET s3 == refine_summary(s1.value, s2.value, article) IN
    IF s3.raised THEN s3 ELSE
    adjust_tone(s3.value, article)

\* AdvancedSummarizer.process; confidence_score is in tenths.
process(article) ==
    LET staged == FourStages(article) IN
    IF ~staged.raised
    THEN [raised |-> FALSE, stage_error |-> FALSE, exc |-> None,
          content |-> staged.value, facts |-> <<>>, confidence_score |-> 5,
          verification_status |-> "completed"]
    ELSE LET basic_summary == basic_summarization(article) IN
         IF basic_summary.raised
         THEN [raised |-> TRUE, stage_error |-> TRUE, exc |-> basic_summary.value,
               content |-> None, facts |-> <<>>, confidence_score |-> 0,
               verification_status |-> None]
         ELSE [raised |-> FALSE, stage_error |-> TRUE, exc |-> None,
               content |-> basic_summary.value, facts |-> <<>>,
               confidence_score |-> 5, verification_status |-> "failed"]

\* --------------------------------------------------------------- XPoster
\* MockXAPIClient.post_tweet: a fresh limiter per run (at most SelectLimit
\* posts, far below 50), so only the length check can fail.
MockPostTweet(length) ==
    IF length > TweetLimit
    THEN [success |-> FALSE, error |-> "too_long"]
    ELSE [success |-> TRUE, post_id |-> "mock_tweet"]

\* The outcomes XPoster.post_tweet can return for a text of this length.
PostTweetResults(mock_mode, length) ==
    IF mock_mode
    THEN { MockPostTweet(length) }
    ELSE { [success |-> TRUE, post_id |-> "tweet"],
           [success |-> FALSE, error |-> "api_error"] }

\* Lengths the final post text can have (a long url defeats the truncation).
PostLengths == {TweetLimit - 1, TweetLimit, TweetLimit + 1}

\* ----------------------------------------------------------- RateLimiter
\* A variant that still counts a request that is exactly time_window old.
can_make_request_inclusive(lim, now, max_requests, time_window) ==
    LET kept == SelectSeq(lim.requests, LAMBDA req_time : now - req_time <= time_window)
    IN  [limiter |-> [lim EXCEPT !.requests = kept],
         result |-> Len(kept) < max_requests]

\* RateLimiter.can_make_request: drop the requests outside the window, then
\* compare what is left with max_requests.
can_make_request(lim, now, max_requests, time_window) ==
    LET kept == SelectSeq(lim.requests, LAMBDA req_time : now - req_time < time_window)
    IN  [limiter |-> [lim EXCEPT !.requests = kept],
         result |-> Len(kept) < max_requests]

\* RateLimiter.record_request
record_request(lim, now) ==
    [lim EXCEPT !.requests = Append(@, now), !.log = Append(@, now)]

SeqMin(s) == CHOOSE m \in Range(s) : \A x \in Range(s) : m <= x

\* RateLimiter.wait_time: time.time() is read once inside can_make_request
\* (now) and once more for the result (later).
wait_time(lim, now, later, max_requests, time_window) ==
    LET c == can_make_request(lim, now, max_requests, time_window) IN
    IF c.result
    THEN [limiter |-> c.limiter, allowed |-> TRUE, result |-> 0]
    ELSE IF c.limiter.requests # <<>>
         THEN [limiter |-> c.limiter, allowed |-> FALSE,
               result |-> time_window - (later - SeqMin(c.limiter.requests))]
         ELSE [limiter |-> c.limiter, allowed |-> FALSE, result |-> 0]

\* -------------------------------------------- XAPIClient, MockXAPIClient
\* A variant whose length validation lets one more character through.
TooLongLenient(length) == length > TweetLimit + 1

\* if len(text) > 280
TooLong(length) == length > TweetLimit

\* What post_tweet hands back, and what it did on the way: requests sent
\* (net), time.sleep calls in tenths of a second (sleeps), the limiter and
\* the time when it returns.
PostOutcome(raised, success, error, retry_after, net, sleeps, lim, now) ==
    [raised |-> raised, success |-> success, error |-> error,
     retry_after |-> retry_after, net |-> net, sleeps |-> sleeps,
     limiter |-> lim, clock |-> now]

\* The answers of the platform to one request: a status code (a 429 carries
\* a retry-after header, None when absent, "date" when it is an HTTP date
\* that int() cannot parse), or an exception of the requests library.
Responses ==
    [kind : {"201", "403", "500", "Timeout", "RequestException"},
     retry_after : {None}]
    \cup [kind : {"429"}, retry_after : {None, "30", "date"}]

\* int(response.headers.get("retry-after", 900))
ParseRetryAfter(header) ==
    CASE header = None -> 900
      [] header = "30" -> 30
      [] OTHER -> 0

BackoffConstant(attempt) == 2

\* Lines 192, 208, 223: (2 ** attempt) * 2 seconds.
Backoff(attempt) == (2 ^ attempt) * 2

\* Lines 110-242: the retry loop, from attempt `attempt` on.
RECURSIVE Attempts(_, _, _, _, _, _, _)
Attempts(attempt, retry_count, responses, now, lim, net, sleeps) ==
    IF attempt >= retry_count
    THEN PostOutcome(FALSE, FALSE, "All retry attempts failed", None, net, sleeps, lim, now)
    ELSE
    LET response == responses[attempt + 1]
        more == attempt < retry_count - 1
        backoff == Backoff(attempt)
    IN
    IF response.kind \in {"Timeout", "RequestException"}
    THEN IF more
         THEN Attempts(attempt + 1, retry_count, responses, now + backoff, lim,
                       net + 1, Append(sleeps, backoff * 10))
         ELSE PostOutcome(FALSE, FALSE, response.kind, None, net + 1, sleeps, lim, now)
    ELSE
    LET recorded == record_request(lim, now) IN
    CASE response.kind = "201" ->
            PostOutcome(FALSE, TRUE, None, None, net + 1, sleeps, recorded, now)
      [] response.kind = "429" ->
            IF response.retry_after = "date"
            THEN PostOutcome(TRUE, FALSE, "ValueError", None, net + 1, sleeps, recorded, now)
            ELSE LET retry_after == ParseRetryAfter(response.retry_after)
                     nap == Min(retry_after, MaxRetrySleep)
                 IN  IF more
                     THEN Attempts(attempt + 1, retry_count, responses, now + nap,
                                   recorded, net + 1, Append(sleeps, nap * 10))
                     ELSE PostOutcome(FALSE, FALSE, "Rate limited by X API",
                                      retry_after, net + 1, sleeps, recorded, now)
      [] response.kind = "403" ->
            PostOutcome(FALSE, FALSE, "Forbidden", None, net + 1, sleeps, recorded, now)
      [] OTHER ->
            IF more
            THEN Attempts(attempt + 1, retry_count, responses, now + backoff,
                          recorded, net + 1, Append(sleeps, backoff * 10))
            ELSE PostOutcome(FALSE, FALSE, "X API error", None, net + 1, sleeps, recorded, now)

\* XAPIClient.post_tweet(text, retry_count)
XAPIClient_post_tweet(is_available, lim, now, length, retry_count, responses) ==
    IF ~is_available
    THEN PostOutcome(TRUE, FALSE, "X API credentials not available", None, 0, <<>>, lim, now)
    ELSE
    LET c == can_make_request(lim, now, XMaxRequests, XTimeWindow) IN
    IF ~c.result
    THEN LET w == wait_time(c.limiter, now, now, XMaxRequests, XTimeWindow)
         IN  PostOutcome(FALSE, FALSE, "Rate limit exceeded", w.result, 0, <<>>, w.limiter, now)
    ELSE IF TooLong(length)
    THEN PostOutcome(FALSE, FALSE, "Tweet too long", None, 0, <<>>, c.limiter, now)
    ELSE Attempts(0, retry_count, responses, now, c.limiter, 0, <<>>)

\* MockXAPIClient.post_tweet(text): no request leaves the process; the
\* simulated delay is time.sleep(0.5).
MockXAPIClient_post_tweet(lim, now, length) ==
    LET c == can_make_request(lim, now, XMaxRequests, XTimeWindow) IN
    IF ~c.result
    THEN LET w == wait_time(c.limiter, now, now, XMaxRequests, XTimeWindow)
         IN  PostOutcome(FALSE, FALSE, "Rate limit exceeded", w.result, 0, <<>>, w.limiter, now)
    ELSE IF TooLong(length)
    THEN PostOutcome(FALSE, FALSE, "Tweet too long", None, 0, <<>>, c.limiter, now)
    ELSE PostOutcome(FALSE, TRUE, None, None, 0, <<5>>, record_request(c.limiter, now), now)

\* ------------------------------------------------------- ContentRanker
\* rank_articles returns the fetched articles reordered by score.
IsPermutation(s, t) ==
    /\ Len(s) = Len(t)
    /\ \E f \in [1..Len(s) -> 1..Len(s)] :
          /\ \A i, j \in 1..Len(s) : i # j => f[i] # f[j]
          /\ \A i \in 1..Len(s) : t[i] = s[f[i]]

rank_articles(fetched) ==
    { t \in SeqsUpTo(Range(fetched), Len(fetched)) : IsPermutation(fetched, t) }

\* selected_articles = ranked_articles[:5]
SelectTop(ranked) == SubSeq(ranked, 1, Min(SelectLimit, Len(ranked)))

\* ---------------------------------------------------------- NewsFetcher
\* fetch_articles(niche, limit=10): the mock fetcher always returns at least
\* one of its canned articles, with pairwise different titles and urls; the
\* provider tiers may return any list, also the empty one.
FetchResults(mock_mode) ==
    IF mock_mode
    THEN { f \in SeqsUpTo(MockDTOs, Min(FetchLimit, MaxFetched)) :
             /\ Len(f) > 0
             /\ \A i, k \in 1..Len(f) :
                   i # k => /\ f[i].url # f[k].url
                            /\ f[i].content_hash # f[k].content_hash }
    ELSE SeqsUpTo(ProviderDTOs, Min(FetchLimit, MaxFetched))

\* ------------------------------------------------------------------ Init
\* Empty tables, an empty queue, idle worker slots.
InitTables ==
    /\ jobs = [j \in Jobs |-> NoJob]
    /\ queue = {}
    /\ taskState = [j \in Jobs |-> "NONE"]
    /\ articles = <<>>
    /\ posts = <<>>
    /\ worker = [w \in Workers |-> IdleWorker]
    /\ execs = [j \in Jobs |-> 0]
    /\ retryLog = {}
    /\ lastRun = [j \in Jobs |-> NoRun]
    /\ tweets = [j \in Jobs |-> 0]
    /\ call = NoCall

\* No experiment, no counter key, no caller under way.
InitComponents ==
    /\ engine = NewEngine
    /\ ratekey = NoStoreKey
    /\ guard = [c \in Callers |-> IdleCaller]
    /\ metrics = NoMetrics

\* Nothing recorded, no counter key, no fetch under way, no configuration.
InitAdapters ==
    /\ clock = 0
    /\ limiter = NewLimiter
    /\ redis = NoCounters
    /\ fetcher = [p \in Workers |-> IdleFetcher]
    /\ httpSent = NothingSent
    /\ config = NoConfig
    /\ InitComponents

InitStore ==
    /\ InitAdapters
    /\ InitTables

\* Real providers configured (mock flags off), one worker slot, one
\* POST /run request: the life of one job, with its retries.
Init ==
    /\ settings = [mock_news_articles |-> FALSE, mock_x_posts |-> FALSE,
                   max_concurrent_tasks |-> 1]
    /\ api = [j \in Jobs |-> IF j = 1 THEN "idle" ELSE "no_request"]
    /\ InitStore

\* The default mock flags (mock news, mock LLM, mock posting), concurrent
\* worker slots, one POST /run request per job.
InitMock ==
    /\ settings = [mock_news_articles |-> TRUE, mock_x_posts |-> TRUE,
                   max_concurrent_tasks |-> NumWorkers]
    /\ api = [j \in Jobs |-> "idle"]
    /\ InitStore

\* ------------------------------------------------------------- POST /run
\* Lines 35-55: the Job row is committed as pending under the generated
\* uuid, then the task is enqueued with that uuid as its job_id argument.
RunCreate(j, preview_mode) ==
    /\ api[j] = "idle"
    /\ \A k \in Jobs : k < j => api[k] # "idle"
    /\ jobs' = [jobs EXCEPT ![j] = PendingJob(j)]
    /\ queue' = queue \cup {[job |-> j, retries |-> 0, countdown |-> 0,
                             preview_mode |-> preview_mode]}
    /\ taskState' = [taskState EXCEPT ![j] = "PENDING"]
    /\ api' = [api EXCEPT ![j] = "enqueued"]
    /\ UNCHANGED <<adapters, call, settings, articles, posts, worker, execs, retryLog,
                   lastRun, tweets>>

\* Lines 57-82: the stored job_id is overwritten with the task id and the
\* active-jobs gauge of the API process is incremented.
RunRename(j) ==
    /\ api[j] = "enqueued"
    /\ jobs' = [jobs EXCEPT ![j] = RenamedJob(@)]
    /\ api' = [api EXCEPT ![j] = "returned"]
    /\ metrics' = [metrics EXCEPT !.active_jobs = @ + 1]
    /\ UNCHANGED <<services, call, settings, queue, taskState, articles, posts, worker,
                   execs, retryLog, lastRun, tweets>>

\* Lines 84-123: the worker package cannot be imported; the row committed
\* as pending is found again and completed with a mock result.
RunImportError(j) ==
    /\ api[j] = "idle"
    /\ \A k \in Jobs : k < j => api[k] # "idle"
    /\ jobs' = [jobs EXCEPT ![j] = [PendingJob(j) EXCEPT !.status = "completed",
                                                      !.completed_at = TRUE,
                                                      !.result = "mock"]]
    /\ api' = [api EXCEPT ![j] = "returned_mock"]
    /\ UNCHANGED <<adapters, call, settings, queue, taskState, articles, posts, worker,
                   execs, retryLog, lastRun, tweets>>

\* Lines 125-127: enqueuing raises; the handler answers 500 and the row
\* committed at line 45 stays.
RunEnqueueError(j) ==
    /\ api[j] = "idle"
    /\ \A k \in Jobs : k < j => api[k] # "idle"
    /\ jobs' = [jobs EXCEPT ![j] = PendingJob(j)]
    /\ api' = [api EXCEPT ![j] = "error_500"]
    /\ UNCHANGED <<adapters, call, settings, queue, taskState, articles, posts, worker,
                   execs, retryLog, lastRun, tweets>>

\* -------------------------------------------------------- fetch_and_post
\* Lines 175, 291: the loop moves to the next selected article, or leaves
\* (selected holds the articles still to iterate, the current one first).
NextArticle(rec) ==
    IF Len(rec.selected) > 1
    THEN [rec EXCEPT !.selected = Tail(@), !.pc = "check"]
    ELSE [rec EXCEPT !.selected = <<>>, !.pc = "finish"]

HandleArticleErrorUnrecorded(rec, kind) == NextArticle(rec)

\* Lines 286-291: the per-article handler records the error and continues;
\* it does not roll the session back.
HandleArticleError(rec, kind) ==
    NextArticle([rec EXCEPT !.results.errors = Append(@, kind)])

TaskFinallyKeepsGauge(m) == [m EXCEPT !.db_sessions = @ - 1]

\* Lines 326-331: the finally block decrements the gauge and closes the
\* session.
TaskFinally(m) == [m EXCEPT !.active_tasks = @ - 1, !.db_sessions = @ - 1]

\* Lines 104-122: the session is opened and the active-task gauge
\* incremented; a free worker slot (slots are interchangeable, the lowest
\* free one is taken) receives a message; the Job is looked up by the job_id
\* argument and, when found, marked running.
TaskStart(w, m) ==
    /\ w <= settings.max_concurrent_tasks
    /\ worker[w].pc = "idle"
    /\ \A v \in Workers : v < w => worker[v].pc # "idle"
    /\ m \in queue
    /\ queue' = queue \ {m}
    /\ LET found == jobs[m.job].job_id = "uuid" IN
       /\ worker' = [worker EXCEPT ![w] =
                        [IdleWorker EXCEPT !.pc = "fetch", !.job = m.job,
                                           !.retries = m.retries,
                                           !.preview_mode = m.preview_mode,
                                           !.job_found = found]]
       /\ jobs' = IF found
                  THEN [jobs EXCEPT ![m.job].status = "running",
                                    ![m.job].started_at = TRUE]
                  ELSE jobs
    /\ execs' = [execs EXCEPT ![m.job] = @ + 1]
    /\ taskState' = [taskState EXCEPT ![m.job] = "STARTED"]
    /\ metrics' = [metrics EXCEPT !.active_tasks = @ + 1, !.db_sessions = @ + 1]
    /\ UNCHANGED <<services, call, settings, api, articles, posts, retryLog, lastRun, tweets>>

\* Lines 141-172: fetch, fail on an empty list, rank, select the top 5.
TaskFetch(w) ==
    /\ worker[w].pc = "fetch"
    /\ \E fetched \in FetchResults(settings.mock_news_articles) :
       \E ranked \in rank_articles(fetched) :
          LET res == [EmptyResults EXCEPT !.articles_fetched = Len(fetched)] IN
          worker' = [worker EXCEPT ![w] =
              IF Len(fetched) = 0
              THEN [@ EXCEPT !.pc = "except", !.exc = "NoArticles",
                             !.results = res]
              ELSE [@ EXCEPT !.pc = "check", !.selected = SelectTop(ranked),
                             !.chosen = Len(SelectTop(ranked)),
                             !.results = res]]
    /\ UNCHANGED <<adapters, call, settings, jobs, api, queue, taskState, articles, posts,
                   execs, retryLog, lastRun, tweets>>

\* deduplication.py lines 17-20: the worker package imports its metrics, so
\* every positive match of is_duplicate counts one skipped duplicate.
record_duplicate_skipped(m) ==
    [m EXCEPT !.duplicate_articles_skipped_total = @ + 1]

\* Lines 178-181: is_duplicate returned True (it has counted the match), the
\* task counts the skip itself and continues.
duplicate_skipped(m) ==
    [record_duplicate_skipped(m) EXCEPT
        !.duplicate_articles_skipped_total = @ + 1, !.skipped = @ + 1]

\* Lines 177-181: the duplicate check; a session whose last flush failed
\* refuses the query until it is rolled back.
ArticleCheck(w) ==
    /\ worker[w].pc = "check"
    /\ LET rec == worker[w]
           a == Head(rec.selected)
           dup == is_duplicate(articles, a)
       IN
       /\ worker' = [worker EXCEPT ![w] =
              IF rec.needs_rollback
              THEN HandleArticleError(rec, "PendingRollbackError")
              ELSE LET seen == [rec EXCEPT !.check =
                                  [by_url |-> ~Falsy(a.url) /\ ExistsByUrl(articles, a.url),
                                   by_hash |-> ExistsByHash(articles, a.content_hash),
                                   result |-> dup, done |-> TRUE]]
                   IN  IF dup THEN NextArticle([seen EXCEPT !.skipped = @ + 1])
                              ELSE [seen EXCEPT !.pc = "insert"]]
       /\ metrics' = IF ~rec.needs_rollback /\ dup
                     THEN duplicate_skipped(metrics)
                     ELSE metrics
    /\ UNCHANGED <<services, call, settings, jobs, api, queue, taskState, articles, posts,
                   execs, retryLog, lastRun, tweets>>

\* Lines 183-198: build the Article (datetime.fromisoformat raises ValueError
\* on a publishedAt that is no ISO date) and commit it; a unique-constraint
\* violation fails the flush and leaves the session waiting for a rollback.
ArticleInsert(w) ==
    /\ worker[w].pc = "insert"
    /\ LET rec == worker[w]
           a == Head(rec.selected)
           row == [url |-> a.url, content_hash |-> generate_content_hash(a),
                   niche |-> RequestNiche(rec.job)]
       IN  IF ~a.date_ok
           THEN /\ worker' = [worker EXCEPT ![w] = HandleArticleError(rec, "ValueError")]
                /\ UNCHANGED articles
           ELSE IF UniqueViolation(articles, row)
           THEN /\ worker' = [worker EXCEPT ![w] =
                      HandleArticleError([rec EXCEPT !.needs_rollback = TRUE],
                                         "IntegrityError")]
                /\ UNCHANGED articles
           ELSE /\ articles' = Append(articles, row)
                /\ worker' = [worker EXCEPT ![w].pc = "summarize"]
    /\ UNCHANGED <<adapters, call, settings, jobs, api, queue, taskState, posts, execs,
                   retryLog, lastRun, tweets>>

\* Lines 209-284: summarise, build the post text, save the Post as pending
\* and, unless preview_mode is set, publish it and record the outcome.
ArticleSummarizeAndPost(w) ==
    /\ worker[w].pc = "summarize"
    /\ LET rec == worker[w]
           a == Head(rec.selected)
           summary_result == process(a)
           got == [rec EXCEPT !.summary = summary_result]
       IN  IF summary_result.raised
           THEN /\ worker' = [worker EXCEPT ![w] =
                                 HandleArticleError(got, summary_result.exc)]
                /\ UNCHANGED <<posts, tweets>>
           ELSE \E length \in PostLengths :
                LET post == [job |-> rec.job, article_url |-> a.url,
                             status |-> "pending", post_id |-> None,
                             posted_at |-> FALSE, error_message |-> None]
                    created == [got EXCEPT !.results.posts_created = @ + 1]
                IN  IF rec.preview_mode
                    THEN /\ posts' = Append(posts, post)
                         /\ worker' = [worker EXCEPT ![w] = NextArticle(
                               [created EXCEPT !.results.articles_processed = @ + 1])]
                         /\ UNCHANGED tweets
                    ELSE \E post_result \in PostTweetResults(settings.mock_x_posts, length) :
                         /\ tweets' = [tweets EXCEPT ![rec.job] = @ + 1]
                         /\ IF post_result.success
                            THEN /\ posts' = Append(posts,
                                       [post EXCEPT !.status = "posted",
                                                    !.post_id = post_result.post_id,
                                                    !.posted_at = TRUE])
                                 /\ worker' = [worker EXCEPT ![w] = NextArticle(
                                       [created EXCEPT !.results.posts_published = @ + 1,
                                                       !.results.articles_processed = @ + 1])]
                            ELSE /\ posts' = Append(posts,
                                       [post EXCEPT !.status = "failed",
                                                    !.error_message = post_result.error])
                                 /\ worker' = [worker EXCEPT ![w] = NextArticle(
                                       [created EXCEPT !.results.errors = Append(@, "Failed to post"),
                                                       !.results.articles_processed = @ + 1])]
    /\ UNCHANGED <<adapters, call, settings, jobs, api, queue, taskState, articles, execs,
                   retryLog, lastRun>>

RunOutcome(rec, how) ==
    [how |-> how, retries |-> rec.retries, job_found |-> rec.job_found,
     preview_mode |-> rec.preview_mode, exc |-> rec.exc,
     articles_fetched |-> rec.results.articles_fetched]

\* Lines 293-302 and 326-331: mark the Job completed and return; a commit
\* on a session that waits for a rollback raises into the task's handler.
TaskFinish(w) ==
    /\ worker[w].pc = "finish"
    /\ LET rec == worker[w] IN
       IF rec.job_found /\ rec.needs_rollback
       THEN /\ worker' = [worker EXCEPT ![w].pc = "except",
                                        ![w].exc = "PendingRollbackError"]
            /\ UNCHANGED <<jobs, taskState, lastRun, metrics>>
       ELSE /\ jobs' = IF rec.job_found
                       THEN [jobs EXCEPT ![rec.job].status = "completed",
                                         ![rec.job].completed_at = TRUE,
                                         ![rec.job].result = rec.results]
                       ELSE jobs
            /\ taskState' = [taskState EXCEPT ![rec.job] = "SUCCESS"]
            /\ lastRun' = [lastRun EXCEPT ![rec.job] = RunOutcome(rec, "returned")]
            /\ worker' = [worker EXCEPT ![w] = IdleWorker]
            /\ metrics' = TaskFinally(metrics)
    /\ UNCHANGED <<services, call, settings, api, queue, articles, posts, execs, retryLog, tweets>>

\* self.retry(exc=e, countdown=60 * (self.request.retries + 1))
RetryCountdown(retries) == RetryDelayUnit * (retries + 1)

\* Lines 304-331: mark the Job failed, then retry through the queue while
\* request.retries < max_retries, else re-raise; if the handler's own commit
\* raises, the exception leaves the task before the retry is requested.
TaskExcept(w) ==
    /\ worker[w].pc = "except"
    /\ LET rec == worker[w] IN
       IF rec.job_found /\ rec.needs_rollback
       THEN /\ taskState' = [taskState EXCEPT ![rec.job] = "FAILURE"]
            /\ lastRun' = [lastRun EXCEPT ![rec.job] = RunOutcome(rec, "raised")]
            /\ UNCHANGED <<jobs, queue, retryLog>>
       ELSE /\ jobs' = IF rec.job_found
                       THEN [jobs EXCEPT ![rec.job].status = "failed",
                                         ![rec.job].completed_at = TRUE,
                                         ![rec.job].error_message = rec.exc]
                       ELSE jobs
            /\ IF rec.retries < retry_attempts
               THEN /\ queue' = queue \cup
                          {[job |-> rec.job, retries |-> rec.retries + 1,
                            countdown |-> RetryCountdown(rec.retries),
                            preview_mode |-> rec.preview_mode]}
                    /\ retryLog' = retryLog \cup
                          {[job |-> rec.job, retries |-> rec.retries,
                            countdown |-> RetryCountdown(rec.retries)]}
                    /\ taskState' = [taskState EXCEPT ![rec.job] = "RETRY"]
                    /\ lastRun' = [lastRun EXCEPT ![rec.job] = RunOutcome(rec, "retry")]
               ELSE /\ taskState' = [taskState EXCEPT ![rec.job] = "FAILURE"]
                    /\ lastRun' = [lastRun EXCEPT ![rec.job] = RunOutcome(rec, "raised")]
                    /\ UNCHANGED <<queue, retryLog>>
    /\ worker' = [worker EXCEPT ![w] = IdleWorker]
    /\ metrics' = TaskFinally(metrics)
    /\ UNCHANGED <<services, call, settings, api, articles, posts, execs, tweets>>

Next ==
    \/ \E j \in Jobs, p \in BOOLEAN : RunCreate(j, p)
    \/ \E j \in Jobs : RunRename(j)
    \/ \E j \in Jobs : RunImportError(j)
    \/ \E j \in Jobs : RunEnqueueError(j)
    \/ \E w \in Workers, m \in queue : TaskStart(w, m)
    \/ \E w \in Workers : TaskFetch(w)
    \/ \E w \in Workers : ArticleCheck(w)
    \/ \E w \in Workers : ArticleInsert(w)
    \/ \E w \in Workers : ArticleSummarizeAndPost(w)
    \/ \E w \in Workers : TaskFinish(w)
    \/ \E w \in Workers : TaskExcept(w)

Spec == Init /\ [][Next]_vars

SpecMock == InitMock /\ [][Next]_vars

\* ---------------------------------------------- GET /status/job/{job_id}
\* A job identifier: the uuid generated by the handler of the j-th request,
\* the id the task queue gave to its task, or a string no request produced.
NoId == [job |-> 0, kind |-> None]

UnusedId == [job |-> 0, kind |-> "unused"]

JobIds == [job : Jobs, kind : {"uuid", "task_id"}] \cup {UnusedId}

\* The job_id column of the row of request j (NoId while there is no row).
StoredId(j) ==
    IF jobs[j].status = "absent" THEN NoId
    ELSE [job |-> j, kind |-> jobs[j].job_id]

NoBody == [job_id |-> NoId, niche |-> None, status |-> None]

NoResponse == [status_code |-> 0, body |-> NoBody]

\* pipeline.py lines 77-82, 118-123, 127: what POST /run answered; job_id is
\* the handler's local variable, the generated uuid, on both returning paths.
RunResponse(j) ==
    CASE api[j] = "returned" ->
            [status_code |-> 200,
             body |-> [job_id |-> [job |-> j, kind |-> "uuid"],
                       niche |-> RequestNiche(j), status |-> "enqueued"]]
      [] api[j] = "returned_mock" ->
            [status_code |-> 200,
             body |-> [job_id |-> [job |-> j, kind |-> "uuid"],
                       niche |-> RequestNiche(j), status |-> "completed"]]
      [] api[j] = "error_500" -> [status_code |-> 500, body |-> NoBody]
      [] OTHER -> NoResponse

\* status.py lines 131-145: the try body, db.query(Job).filter(Job.job_id ==
\* job_id).first(), then HTTPException(404) or the JobStatus of the row.
JobsWithId(id) == { k \in Jobs : StoredId(k) = id }

get_job_status_body(id) ==
    IF JobsWithId(id) = {}
    THEN [kind |-> "HTTPException", status_code |-> 404,
          detail |-> "Job not found", body |-> NoBody]
    ELSE LET k == CHOOSE k \in JobsWithId(id) : TRUE IN
         [kind |-> "return", status_code |-> 200, detail |-> None,
          body |-> [job_id |-> StoredId(k), niche |-> jobs[k].niche,
                    status |-> jobs[k].status]]

get_job_status_except_swallows(outcome) ==
    IF outcome.kind = "return" THEN outcome
    ELSE [kind |-> "HTTPException", status_code |-> 500,
          detail |-> "Failed to get job status", body |-> NoBody]

\* Lines 147-151: an HTTPException is re-raised as it is, any other
\* exception becomes a 500.
get_job_status_except(outcome) ==
    IF outcome.kind \in {"return", "HTTPException"} THEN outcome
    ELSE [kind |-> "HTTPException", status_code |-> 500,
          detail |-> "Failed to get job status", body |-> NoBody]

get_job_status(id) == get_job_status_except(get_job_status_body(id))

\* A client asks for the status of an identifier, at any moment.
GetJobStatus(id) ==
    /\ LET r == get_job_status(id) IN
       call' = [op |-> "get_job_status", id |-> id,
                stored |-> \E k \in Jobs : jobs[k].status # "absent"
                                           /\ jobs[k].job_id = id.kind
                                           /\ k = id.job,
                status_code |-> r.status_code, detail |-> r.detail,
                body |-> r.body]
    /\ UNCHANGED <<adapters, pipeline>>

NextStatus ==
    \/ Next
    \/ \E id \in JobIds : GetJobStatus(id)

\* The life of one job with the real providers (its retries included), and
\* status requests for any identifier at any moment.
SpecStatus == Init /\ [][NextStatus]_vars

\* ------------------------------------------------- POST and GET /config/
\* ConfigRequest bodies.
ConfigRequests ==
    [niches : {<<>>, <<"technology">>}, frequency : {"hourly", "daily"},
     tone : {"professional"}, auto_post : BOOLEAN]

NoRow ==
    [id |-> 0, niches |-> <<>>, frequency |-> None, tone |-> None,
     auto_post |-> FALSE]

ConfigRow(id, payload) ==
    [id |-> id, niches |-> payload.niches, frequency |-> payload.frequency,
     tone |-> payload.tone, auto_post |-> payload.auto_post]

save_config_always_inserts(cfg, payload) ==
    [cfg EXCEPT !.rows = Append(@, ConfigRow(cfg.next_id, payload)),
                !.next_id = @ + 1]

\* config.py lines 38-56: the first row is updated in place, or a row is
\* added when the table is empty (the primary key is assigned on insert).
save_config(cfg, payload) ==
    IF cfg.rows # <<>>
    THEN [cfg EXCEPT !.rows[1] = ConfigRow(@.id, payload)]
    ELSE [cfg EXCEPT !.rows = Append(@, ConfigRow(cfg.next_id, payload)),
                     !.next_id = @ + 1]

\* Lines 57-75 and 86-100: the ConfigResponse of a row; GET answers null
\* when the table is empty.
get_config(cfg) ==
    IF cfg.rows = <<>> THEN [null |-> TRUE, row |-> NoRow]
    ELSE [null |-> FALSE, row |-> cfg.rows[1]]

\* POST /config/ (requests are sequential: each runs to its response).
\* saved and ids keep the payloads sent and the ids answered so far.
SaveConfig(payload) ==
    /\ Len(config.saved) < MaxSaves
    /\ LET cfg == save_config(config, payload)
           row == IF cfg.rows # <<>> /\ config.rows # <<>> THEN cfg.rows[1]
                  ELSE cfg.rows[Len(cfg.rows)]
       IN  /\ config' = [cfg EXCEPT !.saved = Append(@, payload),
                                     !.ids = Append(@, row.id)]
           /\ call' = [op |-> "save_config", payload |-> payload,
                       response |-> [null |-> FALSE, row |-> row]]
    /\ UNCHANGED <<pipeline, clock, limiter, redis, fetcher, httpSent, components>>

\* GET /config/
GetConfig ==
    /\ call' = [op |-> "get_config", saves |-> Len(config.saved),
                response |-> get_config(config)]
    /\ UNCHANGED <<pipeline, adapters>>

NextConfig ==
    \/ \E payload \in ConfigRequests : SaveConfig(payload)
    \/ GetConfig

SpecConfig == InitMock /\ [][NextConfig]_vars


\* ------------------------------------------------------------ GET /status/
busy_threshold == 10

failed_share_tenths == 1

\* status.py line 109: failed_jobs_count > total_jobs * 0.1 (the float
\* product compares like the exact tenth for every table size).
FailedShareExceeded(failed_jobs_count, total_jobs) ==
    10 * failed_jobs_count > failed_share_tenths * total_jobs

system_health_busy_wins(total_jobs, active_jobs, failed_jobs_count) ==
    LET h0 == "healthy"
        h1 == IF FailedShareExceeded(failed_jobs_count, total_jobs)
              THEN "degraded" ELSE h0
    IN  IF active_jobs > busy_threshold THEN "busy" ELSE h1

\* Lines 104-110: healthy, then busy, then degraded, each overwriting the
\* one before.
system_health(total_jobs, active_jobs, failed_jobs_count) ==
    LET h0 == "healthy"
        h1 == IF active_jobs > busy_threshold THEN "busy" ELSE h0
    IN  IF FailedShareExceeded(failed_jobs_count, total_jobs)
        THEN "degraded" ELSE h1

\* GET /status/ on a jobs table with the given number of rows per status
\* (lines 49-52 and 108: the three counts).
GetSystemStatus(pending, running, completed, failed) ==
    /\ LET total_jobs == pending + running + completed + failed
           active_jobs == pending + running
       IN  call' = [op |-> "get_system_status", pending |-> pending,
                    running |-> running, completed |-> completed,
                    failed |-> failed,
                    system_health |->
                        system_health(total_jobs, active_jobs, failed)]
    /\ UNCHANGED <<adapters, pipeline>>

\* One request per behaviour.
NextHealth ==
    /\ call = NoCall
    /\ \E pending \in 0..MaxPending, running \in 0..MaxRunning,
          completed \in 0..MaxCompleted, failed \in 0..MaxFailed :
           GetSystemStatus(pending, running, completed, failed)

SpecHealth == InitMock /\ [][NextHealth]_vars


\* ---------------------------------------- MockLLMAdapter.summarize_article
\* llm_adapter.py lines 195-201: the canned summaries, word by word.
mock_summaries ==
    << <<"Breaking:", "New", "AI", "breakthrough", "promises", "to",
         "revolutionize", "industry", "efficiency", "and", "automation.">>,
       <<"Tech", "giant", "announces", "major", "update", "with", "enhanced",
         "security", "features", "and", "improved", "user", "experience.">>,
       <<"Researchers", "discover", "innovative", "solution", "that", "could",
         "transform", "renewable", "energy", "sector.">>,
       <<"Market", "analysis", "reveals", "significant", "growth", "trends",
         "in", "emerging", "technology", "sectors.">>,
       <<"Expert", "analysis", "shows", "promising", "developments", "in",
         "sustainable", "technology", "adoption.">> >>

Tones == {"professional", "casual", "creative"}

Contents == {"content_a", "content_b"}

\* str.replace(old, new) on a text whose words never contain old in part.
Replace(text, old, new) ==
    [i \in 1..Len(text) |-> IF text[i] = old THEN new ELSE text[i]]

\* Lines 214-215: int(md5(title).hexdigest()[:2], 16) % len(mock_summaries),
\* from the first byte of the digest.
summary_index(title_byte) == title_byte % Len(mock_summaries)

\* Lines 207-231 (the content argument is never read).
MockLLMAdapter_summarize_article(title_byte, content, tone) ==
    LET summary == mock_summaries[summary_index(title_byte) + 1] IN
    IF tone = "casual"
    THEN Replace(Replace(summary, "Breaking:", "Check this out:"),
                 "announces", "just announced")
    ELSE IF tone = "creative"
    THEN <<"[rocket]">> \o summary \o <<"[fire]">>
    ELSE summary

NoSummaryCall == [title_byte |-> 0, content |-> None, tone |-> None,
                  result |-> <<>>]

\* One call of the mock summarizer; the call before it is kept beside it.
MockSummarize(title_byte, content, tone) ==
    /\ call' = [op |-> "MockLLMAdapter.summarize_article",
                title_byte |-> title_byte, content |-> content, tone |-> tone,
                result |-> MockLLMAdapter_summarize_article(title_byte,
                                                            content, tone),
                prev |-> IF call.op = "MockLLMAdapter.summarize_article"
                         THEN [title_byte |-> call.title_byte,
                               content |-> call.content, tone |-> call.tone,
                               result |-> call.result]
                         ELSE NoSummaryCall]
    /\ UNCHANGED <<adapters, pipeline>>

NextSummary ==
    \E title_byte \in 0..MaxTitleByte, content \in Contents, tone \in Tones :
        MockSummarize(title_byte, content, tone)

SpecSummary == InitMock /\ [][NextSummary]_vars



\* ------------------------------------------- ContentRanker called directly
\* An article as the ranker sees it: its four feature scores in thousandths
\* (what _calculate_relevance_score, _calculate_freshness_score,
\* _calculate_source_authority and _calculate_engagement_potential return for
\* its texts, source and date); the source authority is 0.5, 0.7 or 1.0.
RankedProfiles ==
    { [relevance |-> 300, freshness |-> 500, source_authority |-> a,
       engagement |-> 200] : a \in {500, 700, 1000} }

\* Lines 72-79: the weighted sum, clamped to 0..1.
calculate_composite_score(article) ==
    LET composite_score == (article.relevance * 4 + article.freshness * 3
                            + article.source_authority * 2
                            + article.engagement) \div 10
    IN  Min(1000, IF composite_score < 0 THEN 0 ELSE composite_score)

\* Lines 33-36: every article gets its rank_score; arrival is its position
\* in the list handed in.
Scored(fetched) ==
    [i \in 1..Len(fetched) |->
        [arrival |-> i, rank_score |-> calculate_composite_score(fetched[i])]]

InsertDescUnstable(sorted, x) ==
    LET k == Cardinality({ i \in 1..Len(sorted) :
                             sorted[i].rank_score > x.rank_score })
    IN  SubSeq(sorted, 1, k) \o <<x>> \o SubSeq(sorted, k + 1, Len(sorted))

\* list.sort(key=..., reverse=True) is stable: an element goes behind every
\* earlier element whose key is greater or equal.
InsertDesc(sorted, x) ==
    LET k == Cardinality({ i \in 1..Len(sorted) :
                             sorted[i].rank_score >= x.rank_score })
    IN  SubSeq(sorted, 1, k) \o <<x>> \o SubSeq(sorted, k + 1, Len(sorted))

RECURSIVE SortDesc(_)
\* Line 39: ranked_articles.sort(key=lambda x: x['rank_score'], reverse=True)
SortDesc(s) ==
    IF Len(s) = 0 THEN <<>>
    ELSE InsertDesc(SortDesc(SubSeq(s, 1, Len(s) - 1)), s[Len(s)])

\* ContentRanker.rank_articles(articles)
ContentRanker_rank_articles(fetched) == SortDesc(Scored(fetched))

\* rank_articles on a fetched list, then tasks.py line 171: the top 5.
RankArticles(fetched) ==
    /\ LET ranked_articles == ContentRanker_rank_articles(fetched) IN
       call' = [op |-> "rank_articles", articles |-> Scored(fetched),
                ranked_articles |-> ranked_articles,
                selected_articles |-> SelectTop(ranked_articles)]
    /\ UNCHANGED <<pipeline, adapters>>

NextRank ==
    /\ call = NoCall
    /\ \E fetched \in SeqsUpTo(RankedProfiles, MaxRanked) : RankArticles(fetched)

SpecRank == InitMock /\ [][NextRank]_vars

\* ------------------------------------------------- security.RateLimiter
\* RateLimiter(redis_client, SecMaxRequests, SecWindowSeconds) on one key.
UnderLimitInclusive(current) == current <= SecMaxRequests

\* security.py line 101: int(current) < self.max_requests
UnderLimit(current) == current < SecMaxRequests

\* SETEX key window_seconds 1
Setex(key) == [value |-> 1, ttl |-> SecWindowSeconds, granted |-> 1]

\* INCR key: a missing key is created at 1 and gets no expiry; an existing
\* key keeps the expiry it has.
Incr(key) ==
    IF key.value = NoKey
    THEN [value |-> 1, ttl |-> Persistent, granted |-> 1]
    ELSE [key EXCEPT !.value = @ + 1, !.granted = @ + 1]

\* Lines 109-117: max(0, ttl); 0 when the store raises.
get_retry_after(key, store_up) ==
    IF ~store_up THEN 0
    ELSE IF key.ttl > 0 THEN key.ttl ELSE 0

SecCall(c, raised, result, seen, before, after) ==
    [op |-> "is_allowed", caller |-> c, raised |-> raised, result |-> result,
     seen |-> seen, before |-> before, after |-> after]

\* Line 97: current = self.redis.get(key); an exception of the store is
\* caught at line 106 and the request is let through.
SecGet(c, store_up) ==
    /\ guard[c].pc = "idle"
    /\ IF store_up
       THEN /\ guard' = [guard EXCEPT ![c] = [pc |-> "decide",
                                             current |-> ratekey.value,
                                             seen |-> ratekey]]
            /\ UNCHANGED call
       ELSE /\ call' = SecCall(c, TRUE, TRUE, ratekey, ratekey, ratekey)
            /\ UNCHANGED guard
    /\ UNCHANGED <<pipeline, clock, limiter, redis, fetcher, httpSent, config,
                   engine, ratekey, metrics>>

\* Lines 98-105: SETEX for an absent key, INCR under the maximum, else the
\* request is refused; the write can raise like the read.
SecDecide(c, store_up) ==
    /\ guard[c].pc = "decide"
    /\ LET current == guard[c].current
           writes == current = NoKey \/ UnderLimit(current)
           key == IF current = NoKey THEN Setex(ratekey) ELSE Incr(ratekey)
       IN  IF ~writes
           THEN /\ call' = SecCall(c, FALSE, FALSE, guard[c].seen, ratekey, ratekey)
                /\ UNCHANGED ratekey
           ELSE IF store_up
           THEN /\ call' = SecCall(c, FALSE, TRUE, guard[c].seen, ratekey, key)
                /\ ratekey' = key
           ELSE /\ call' = SecCall(c, TRUE, TRUE, guard[c].seen, ratekey, ratekey)
                /\ UNCHANGED ratekey
    /\ guard' = [guard EXCEPT ![c] = IdleCaller]
    /\ UNCHANGED <<pipeline, clock, limiter, redis, fetcher, httpSent, config,
                   engine, metrics>>

\* RateLimiter.get_retry_after(key)
SecRetryAfter(store_up) ==
    /\ call' = [op |-> "get_retry_after", raised |-> ~store_up,
                result |-> get_retry_after(ratekey, store_up),
                before |-> ratekey]
    /\ UNCHANGED <<pipeline, adapters>>

\* One second passes: a key with an expiry comes closer to it and is
\* deleted when it is reached.
SecTick ==
    /\ ratekey.ttl > 0
    /\ ratekey' = IF ratekey.ttl = 1 THEN NoStoreKey
                  ELSE [ratekey EXCEPT !.ttl = @ - 1]
    /\ UNCHANGED <<pipeline, call, clock, limiter, redis, fetcher, httpSent,
                   config, engine, guard, metrics>>

\* A single caller.
NextSecurityAlone ==
    \/ \E store_up \in BOOLEAN : SecGet(1, store_up)
    \/ \E store_up \in BOOLEAN : SecDecide(1, store_up)
    \/ \E store_up \in BOOLEAN : SecRetryAfter(store_up)
    \/ SecTick

SpecSecurityAlone == InitMock /\ [][NextSecurityAlone]_vars

\* Concurrent callers on the same key.
NextSecurity ==
    \/ \E c \in Callers, store_up \in BOOLEAN : SecGet(c, store_up)
    \/ \E c \in Callers, store_up \in BOOLEAN : SecDecide(c, store_up)
    \/ \E store_up \in BOOLEAN : SecRetryAfter(store_up)
    \/ SecTick

SpecSecurity == InitMock /\ [][NextSecurity]_vars

\* ------------------------------------- DeduplicationService called directly
AllDTOs == [url : Urls \cup {NoUrl, EmptyUrl}, content_hash : Hashes]

\* The contents the articles table can have: rows with unique url and hash.
StoredTables ==
    { t \in SeqsUpTo([url : Urls \cup {EmptyUrl}, content_hash : Hashes], MaxStored) :
        \A i, k \in 1..Len(t) :
            i # k => t[i].url # t[k].url /\ t[i].content_hash # t[k].content_hash }

InitDedup ==
    /\ settings = [mock_news_articles |-> TRUE, mock_x_posts |-> TRUE,
                   max_concurrent_tasks |-> NumWorkers]
    /\ jobs = [j \in Jobs |-> NoJob]
    /\ api = [j \in Jobs |-> "idle"]
    /\ queue = {}
    /\ taskState = [j \in Jobs |-> "NONE"]
    /\ articles \in StoredTables
    /\ posts = <<>>
    /\ worker = [w \in Workers |-> IdleWorker]
    /\ execs = [j \in Jobs |-> 0]
    /\ retryLog = {}
    /\ lastRun = [j \in Jobs |-> NoRun]
    /\ tweets = [j \in Jobs |-> 0]
    /\ call = NoCall
    /\ InitAdapters

\* DeduplicationService(db).is_duplicate(article_data)
DedupCall(article_data) ==
    /\ call' = [op |-> "is_duplicate", article |-> article_data,
                result |-> is_duplicate(articles, article_data)]
    /\ UNCHANGED <<adapters, settings, jobs, api, queue, taskState, articles,
                   posts, worker, execs, retryLog, lastRun, tweets>>

NextDedup == \E article_data \in AllDTOs : DedupCall(article_data)

SpecDedup == InitDedup /\ [][NextDedup]_vars

\* ------------------------------------------ post content (tasks.py 228-242)
\* A text is described by its length and by how it ends: with the line
\* "Source: {url}" verbatim, with that line lower-cased, or with other words.
SourceLineLen(url_len) == SourcePrefixLen + url_len

\* original_content = f"{summary}\n\nSource: {article.url}"
original_content(summary_len, url_len) ==
    [len |-> summary_len + SourceLineLen(url_len), tail |-> "source"]

Strategies ==
    {"casual_tone", "formal_tone", "question_hook", "statistic_lead",
     "story_opening"}

\* ABTestingEngine._create_variant: the fixed words put around the content.
create_variant(content, strategy) ==
    CASE strategy = "casual_tone" ->
            [len |-> 21 + content.len,
             tail |-> IF content.tail = "source" THEN "source_lower"
                                                 ELSE content.tail]
      [] strategy = "formal_tone" -> [len |-> 18 + content.len, tail |-> content.tail]
      [] strategy = "question_hook" -> [len |-> 14 + content.len + 19, tail |-> "question"]
      [] strategy = "statistic_lead" -> [len |-> 16 + content.len, tail |-> content.tail]
      [] strategy = "story_opening" -> [len |-> 24 + content.len, tail |-> content.tail]

\* len(s[:k]) in Python: a negative k counts from the end of s.
PySliceLen(n, k) ==
    IF k >= 0 THEN Min(n, k)
    ELSE IF n + k > 0 THEN n + k ELSE 0

\* Lines 238-242: truncate to X limits.
truncate(post_content, url_len) ==
    IF post_content.len > TweetLimit
    THEN LET available_chars == TweetLimit - SourceLineLen(url_len) - EllipsisLen
             truncated_summary ==
                 PySliceLen(post_content.len, available_chars) + EllipsisLen
         IN  [len |-> truncated_summary + SourceLineLen(url_len),
              tail |-> "source"]
    ELSE post_content

\* Lines 230-242 for one article: the variant run_experiment draws, then the
\* truncation.
BuildPostContent(summary_len, url_len, strategy) ==
    /\ LET selected_variant ==
               create_variant(original_content(summary_len, url_len), strategy)
       IN  call' = [op |-> "post_content", summary_len |-> summary_len,
                    url_len |-> url_len, strategy |-> strategy,
                    chosen |-> selected_variant,
                    result |-> truncate(selected_variant, url_len)]
    /\ UNCHANGED <<adapters, settings, jobs, api, queue, taskState, articles,
                   posts, worker, execs, retryLog, lastRun, tweets>>

\* One article per behaviour.
NextPost ==
    /\ call = NoCall
    /\ \E summary_len \in 0..MaxSummaryLen, url_len \in 0..MaxUrlLen,
          strategy \in Strategies :
           BuildPostContent(summary_len, url_len, strategy)

SpecPost == InitMock /\ [][NextPost]_vars


\* --------------------------------------------------------- ABTestingEngine
\* generate_variants builds the variants in this order (lines 117-123).
StrategyOrder ==
    <<"casual_tone", "formal_tone", "question_hook", "statistic_lead",
      "story_opening">>

\* Variant.__init__ (lines 26-32): weight 1.0 by default, counters at zero.
default_weight == 1

Variant(content, strategy) ==
    [content |-> content, strategy |-> strategy, weight |-> default_weight,
     impressions |-> 0, clicks |-> 0, conversions |-> 0]

generate_variants(content) ==
    [i \in 1..Len(StrategyOrder) |->
        Variant(create_variant(content, StrategyOrder[i]), StrategyOrder[i])]

RECURSIVE WeightUpTo(_, _)
WeightUpTo(variants, i) ==
    IF i = 0 THEN 0 ELSE WeightUpTo(variants, i - 1) + variants[i].weight

\* Lines 148-160: the first variant whose cumulative weight reaches the
\* draw, else the first one (the draw is rounded up to a whole weight).
weighted_random_selection(variants, random_value) ==
    LET reached == { i \in 1..Len(variants) :
                       random_value <= WeightUpTo(variants, i) }
    IN  IF reached = {} THEN 1
        ELSE CHOOSE i \in reached : \A k \in reached : i <= k

run_experiment_forgets_impression(eng, content, experiment_id, random_value) ==
    IF experiment_id \notin ExperimentIds
       \/ ~eng.experiments[experiment_id].exists
    THEN [engine |-> eng, known |-> FALSE, index |-> 0,
          result |-> Variant(content, "casual_tone")]
    ELSE LET variants == eng.experiments[experiment_id].variants
             i == weighted_random_selection(variants, random_value)
         IN  [engine |-> eng, known |-> TRUE, index |-> i,
              result |-> variants[i]]

\* Lines 79-105: an unknown id answers a new casual variant around the
\* content as it is; a known one selects, counts the impression, returns.
run_experiment(eng, content, experiment_id, random_value) ==
    IF experiment_id \notin ExperimentIds
       \/ ~eng.experiments[experiment_id].exists
    THEN [engine |-> eng, known |-> FALSE, index |-> 0,
          result |-> Variant(content, "casual_tone")]
    ELSE LET variants == eng.experiments[experiment_id].variants
             i == weighted_random_selection(variants, random_value)
             counted == [variants EXCEPT ![i].impressions = @ + 1]
         IN  [engine |-> [eng EXCEPT
                             !.experiments[experiment_id].variants = counted],
              known |-> TRUE, index |-> i, result |-> counted[i]]

\* The contents posts are built from.
OriginalContents == {original_content(40, 30)}

UnknownId == "id_unknown"

\* tasks.py lines 231-234: generate_variants, then create_experiment under
\* the name of the post (lines 57-78; the id is derived from the name).
CreateExperiment(experiment_id, content) ==
    /\ engine.creates < MaxCreates
    /\ LET variants == generate_variants(content) IN
       /\ engine' = [engine EXCEPT
                        !.experiments[experiment_id] =
                            [exists |-> TRUE, variants |-> variants, runs |-> 0],
                        !.creates = @ + 1]
       /\ call' = [op |-> "create_experiment", id |-> experiment_id,
                   content |-> content, generated |-> variants]
    /\ UNCHANGED <<pipeline, clock, limiter, redis, fetcher, httpSent, config,
                   ratekey, guard, metrics>>

RunExperiment(experiment_id, content, random_value) ==
    /\ engine.runs < MaxRuns
    /\ LET r == run_experiment(engine, content, experiment_id, random_value)
           counted == [r.engine EXCEPT !.runs = @ + 1]
       IN  /\ engine' = IF r.known
                        THEN [counted EXCEPT
                                 !.experiments[experiment_id].runs = @ + 1]
                        ELSE counted
           /\ call' = [op |-> "run_experiment", id |-> experiment_id,
                       content |-> content, known |-> r.known,
                       index |-> r.index, result |-> r.result,
                       before |-> [e \in ExperimentIds |->
                                      engine.experiments[e].variants],
                       after |-> [e \in ExperimentIds |->
                                     r.engine.experiments[e].variants]]
    /\ UNCHANGED <<pipeline, clock, limiter, redis, fetcher, httpSent, config,
                   ratekey, guard, metrics>>

\* Lines 162-177: record_interaction on a variant of an experiment.
RecordInteraction(experiment_id, i, interaction_type) ==
    /\ engine.interactions < MaxInteractions
    /\ engine.experiments[experiment_id].exists
    /\ i \in 1..Len(engine.experiments[experiment_id].variants)
    /\ engine' = [engine EXCEPT
                     !.interactions = @ + 1,
                     !.experiments[experiment_id].variants[i] =
                         IF interaction_type = "click"
                         THEN [@ EXCEPT !.clicks = @ + 1]
                         ELSE IF interaction_type = "conversion"
                         THEN [@ EXCEPT !.conversions = @ + 1]
                         ELSE @]
    /\ UNCHANGED <<pipeline, call, clock, limiter, redis, fetcher, httpSent,
                   config, ratekey, guard, metrics>>

NextEngine ==
    \/ \E e \in ExperimentIds, content \in OriginalContents :
          CreateExperiment(e, content)
    \/ \E e \in ExperimentIds \cup {UnknownId}, content \in OriginalContents,
          random_value \in 0..(Len(StrategyOrder) * default_weight) :
          RunExperiment(e, content, random_value)
    \/ \E e \in ExperimentIds, i \in 1..Len(StrategyOrder),
          t \in {"click", "conversion"} : RecordInteraction(e, i, t)

SpecEngine == InitMock /\ [][NextEngine]_vars

\* ------------------------------------------- RateLimiter called directly
\* RateLimiter(LimMaxRequests, LimTimeWindow) under a clock that never runs
\* backwards.
LimTick ==
    /\ clock < MaxClock
    /\ clock' = clock + 1
    /\ UNCHANGED <<pipeline, call, limiter, redis, fetcher, httpSent, config, components>>

LimCanMakeRequest ==
    /\ LET c == can_make_request(limiter, clock, LimMaxRequests, LimTimeWindow)
       IN  /\ limiter' = c.limiter
           /\ call' = [op |-> "can_make_request", now |-> clock,
                        later |-> clock, allowed |-> c.result, result |-> 0]
    /\ UNCHANGED <<pipeline, clock, redis, fetcher, httpSent, config, components>>

LimRecordRequest ==
    /\ Len(limiter.log) < MaxRecords
    /\ limiter' = record_request(limiter, clock)
    /\ call' = [op |-> "record_request", now |-> clock, later |-> clock,
                 allowed |-> FALSE, result |-> 0]
    /\ UNCHANGED <<pipeline, clock, redis, fetcher, httpSent, config, components>>

\* The clock may move on between the two reads of wait_time.
LimWaitTime(d) ==
    /\ clock + d <= MaxClock
    /\ LET w == wait_time(limiter, clock, clock + d, LimMaxRequests, LimTimeWindow)
       IN  /\ limiter' = w.limiter
           /\ call' = [op |-> "wait_time", now |-> clock, later |-> clock + d,
                        allowed |-> w.allowed, result |-> w.result]
    /\ clock' = clock + d
    /\ UNCHANGED <<pipeline, redis, fetcher, httpSent, config, components>>

NextLimiter ==
    \/ LimTick
    \/ LimCanMakeRequest
    \/ LimRecordRequest
    \/ \E d \in {0, 1} : LimWaitTime(d)

SpecLimiter == InitMock /\ [][NextLimiter]_vars

\* --------------------------------------- social clients called directly
\* A client that recorded k requests earlier on, all at second 0.
PriorRequests(k) == [requests |-> [i \in 1..k |-> 0], log |-> [i \in 1..k |-> 0]]

\* The client is idle, empty or close to its limit; the call comes in the
\* window of the earlier requests or right after it.
InitClient ==
    /\ settings = [mock_news_articles |-> TRUE, mock_x_posts |-> TRUE,
                   max_concurrent_tasks |-> NumWorkers]
    /\ api = [j \in Jobs |-> "idle"]
    /\ InitTables
    /\ limiter \in { PriorRequests(k) :
                       k \in {0} \cup ((XMaxRequests - DefaultRetryCount)..XMaxRequests) }
    /\ clock \in {0, XTimeWindow - 1, XTimeWindow}
    /\ redis = NoCounters
    /\ fetcher = [p \in Workers |-> IdleFetcher]
    /\ httpSent = NothingSent
    /\ config = NoConfig
    /\ InitComponents

ClientCall(op, is_available, length, retry_count, responses, r) ==
    /\ call' = [op |-> op, is_available |-> is_available, length |-> length,
                 retry_count |-> retry_count, responses |-> responses,
                 started |-> clock, prior |-> Len(limiter.log),
                 raised |-> r.raised,
                 success |-> r.success, error |-> r.error,
                 retry_after |-> r.retry_after, net |-> r.net,
                 sleeps |-> r.sleeps,
                 recorded |-> Len(r.limiter.log) - Len(limiter.log)]
    /\ limiter' = r.limiter
    /\ clock' = r.clock
    /\ UNCHANGED <<pipeline, redis, fetcher, httpSent, config, components>>

RealPostTweet(is_available, length, retry_count, responses) ==
    /\ call = NoCall
    /\ ClientCall("XAPIClient.post_tweet", is_available, length, retry_count,
                  responses,
                  XAPIClient_post_tweet(is_available, limiter, clock, length,
                                        retry_count, responses))

MockClientPostTweet(length) ==
    /\ call = NoCall
    /\ ClientCall("MockXAPIClient.post_tweet", TRUE, length, DefaultRetryCount,
                  <<>>,
                  MockXAPIClient_post_tweet(limiter, clock, length))

\* One call per behaviour.
NextClient ==
    \/ /\ call = NoCall
       /\ \E is_available \in BOOLEAN, length \in PostLengths,
             retry_count \in 1..DefaultRetryCount,
             responses \in [1..DefaultRetryCount -> Responses] :
               RealPostTweet(is_available, length, retry_count, responses)
    \/ /\ call = NoCall
       /\ \E length \in PostLengths : MockClientPostTweet(length)

SpecClient == InitClient /\ [][NextClient]_vars

\* ------------------------------- RedisRateLimiter and the network fetchers
MaxRequestsOf(s) ==
    IF s = "google_search" THEN GoogleMaxRequests ELSE NewsApiMaxRequests

TimeWindowOf(s) ==
    IF s = "google_search" THEN GoogleTimeWindow ELSE NewsApiTimeWindow

\* RedisRateLimiter._get_key: current_window = int(time.time() // time_window)
WindowOf(s, now) == now \div TimeWindowOf(s)

\* redis_client.get(key)
RedisGet(store, s, now) ==
    IF store[s].window = WindowOf(s, now) THEN store[s].count ELSE NoKey

\* RedisRateLimiter.can_make_request
RedisRateLimiter_can_make_request(store, s, now) ==
    LET current_count == RedisGet(store, s, now) IN
    IF current_count = NoKey THEN TRUE
    ELSE current_count < MaxRequestsOf(s)

\* RedisRateLimiter.record_request: INCR and EXPIRE in one pipeline.
RedisRateLimiter_record_request(store, s, now) ==
    LET current_count == RedisGet(store, s, now) IN
    [store EXCEPT ![s] = [window |-> WindowOf(s, now),
                          count |-> IF current_count = NoKey THEN 1
                                    ELSE current_count + 1]]

\* One more request left the process for the provider of s.
Sent(log, s, now) ==
    [log EXCEPT ![s] = [window |-> WindowOf(s, now),
                        count |-> IF log[s].window = WindowOf(s, now)
                                  THEN log[s].count + 1 ELSE 1]]

\* ---------------------------------------------- NewsFetcher.fetch_articles
\* Lines 578-599: the tier the facade starts with.
FirstTier(mock_mode, google, newsapi) ==
    IF mock_mode THEN "mock"
    ELSE IF google THEN "google_search"
    ELSE IF newsapi THEN "newsapi"
    ELSE "mock"

\* A variant that goes straight to the mock data when a tier has failed.
NextTierSkipsNewsApi(tier, newsapi) == "mock"

\* Lines 586-599: the tier tried after `tier` has raised.
NextTier(tier, newsapi) ==
    IF tier = "google_search" /\ newsapi THEN "newsapi" ELSE "mock"

\* The facade enters a tier: the network tiers start with the limiter check.
EnterTier(rec, tier) ==
    [rec EXCEPT !.tier = tier, !.pc = IF tier = "mock" THEN "mock" ELSE "check"]

\* The current tier raised: the facade logs it and falls through.
TierRaised(rec) ==
    EnterTier([rec EXCEPT !.tried = Append(@, rec.tier)],
              NextTier(rec.tier, rec.newsapi))

\* fetch_articles returns `fetched`, obtained from the current tier.
FacadeReturn(p, fetched) ==
    /\ call' = [op |-> "fetch_articles", mock_mode |-> fetcher[p].mock_mode,
                 google |-> fetcher[p].google, newsapi |-> fetcher[p].newsapi,
                 tried |-> fetcher[p].tried, tier |-> fetcher[p].tier,
                 result |-> fetched]
    /\ fetcher' = [fetcher EXCEPT ![p] =
                       [IdleFetcher EXCEPT !.calls = fetcher[p].calls + 1]]

FetchStart(p, mock_mode, google, newsapi) ==
    /\ fetcher[p].pc = "idle"
    /\ fetcher[p].calls < MaxFacadeCalls
    /\ fetcher' = [fetcher EXCEPT ![p] =
          EnterTier([@ EXCEPT !.mock_mode = mock_mode, !.google = google,
                              !.newsapi = newsapi],
                    FirstTier(mock_mode, google, newsapi))]
    /\ UNCHANGED <<pipeline, call, clock, limiter, redis, httpSent, config, components>>

\* GoogleSearchFetcher / NewsAPIFetcher.fetch_articles up to the limiter
\* check: a full counter, or a store that cannot be reached, raises.
TierCheck(p, redis_up) ==
    /\ fetcher[p].pc = "check"
    /\ fetcher' = [fetcher EXCEPT ![p] =
          IF redis_up /\ RedisRateLimiter_can_make_request(redis, @.tier, clock)
          THEN [@ EXCEPT !.pc = "send"]
          ELSE TierRaised(@)]
    /\ UNCHANGED <<pipeline, call, clock, limiter, redis, httpSent, config, components>>

\* requests.get and raise_for_status: the request is sent, and fails or not.
TierSend(p, ok) ==
    /\ fetcher[p].pc = "send"
    /\ httpSent' = Sent(httpSent, fetcher[p].tier, clock)
    /\ fetcher' = [fetcher EXCEPT ![p] =
          IF ok THEN [@ EXCEPT !.pc = "record"] ELSE TierRaised(@)]
    /\ UNCHANGED <<pipeline, call, clock, limiter, redis, config, components>>

\* The successful request is recorded and the articles are returned; if the
\* store cannot be reached the tier raises after all.
TierRecord(p, redis_up, fetched) ==
    /\ fetcher[p].pc = "record"
    /\ IF redis_up
       THEN /\ redis' = RedisRateLimiter_record_request(redis, fetcher[p].tier, clock)
            /\ FacadeReturn(p, fetched)
       ELSE /\ fetcher' = [fetcher EXCEPT ![p] = TierRaised(@)]
            /\ UNCHANGED <<redis, call>>
    /\ UNCHANGED <<pipeline, clock, limiter, httpSent, config, components>>

\* MockNewsFetcher.fetch_articles: canned articles, no request, no raise.
MockTier(p, fetched) ==
    /\ fetcher[p].pc = "mock"
    /\ FacadeReturn(p, fetched)
    /\ UNCHANGED <<pipeline, clock, limiter, redis, httpSent, config, components>>

\* Time passes up to the start of the next fixed window of service s.
FetchTick(s) ==
    /\ WindowOf(s, clock) < MaxWindow
    /\ clock' = (WindowOf(s, clock) + 1) * TimeWindowOf(s)
    /\ UNCHANGED <<pipeline, call, limiter, redis, fetcher, httpSent, config, components>>

\* What a tier hands to the facade, which passes it on untouched: no article
\* or one article here, whatever the tier.
TierAnswers(mock_mode) == { f \in FetchResults(mock_mode) : Len(f) <= 1 }

NextFetch ==
    \/ \E p \in Workers, mock_mode, google, newsapi \in BOOLEAN :
          FetchStart(p, mock_mode, google, newsapi)
    \/ \E p \in Workers, redis_up \in BOOLEAN : TierCheck(p, redis_up)
    \/ \E p \in Workers, ok \in BOOLEAN : TierSend(p, ok)
    \/ \E p \in Workers, redis_up \in BOOLEAN, fetched \in TierAnswers(FALSE) :
          TierRecord(p, redis_up, fetched)
    \/ \E p \in Workers, fetched \in TierAnswers(TRUE) : MockTier(p, fetched)
    \/ \E s \in Services : FetchTick(s)

\* k requests were sent, answered and counted earlier in the first window.
PriorCount(k) == [window |-> 0, count |-> IF k = 0 THEN NoKey ELSE k]

NearLimit(s) == {0, MaxRequestsOf(s) - 1, MaxRequestsOf(s)}

InitFetch ==
    /\ settings = [mock_news_articles |-> FALSE, mock_x_posts |-> TRUE,
                   max_concurrent_tasks |-> NumWorkers]
    /\ api = [j \in Jobs |-> "idle"]
    /\ InitTables
    /\ clock = 0
    /\ limiter = NewLimiter
    /\ \E g \in NearLimit("google_search"), n \in NearLimit("newsapi") :
          /\ redis = [s \in Services |->
                         PriorCount(IF s = "google_search" THEN g ELSE n)]
          /\ httpSent = [s \in Services |->
                            [window |-> 0,
                             count |-> IF s = "google_search" THEN g ELSE n]]
    /\ fetcher = [p \in Workers |-> IdleFetcher]
    /\ config = NoConfig
    /\ InitComponents

SpecFetch == InitFetch /\ [][NextFetch]_vars

\* ================================================================ claims

Finished(j) == taskState[j] \in {"SUCCESS", "FAILURE", "RETRY"}

\* C1: every Job row created by POST /run and enqueued is completed or failed
\* once an execution of its fetch_and_post task has finished (returned or
\* raised); it is never left pending or running.
C1_JobTerminalAfterTask ==
    \A j \in Jobs :
        Finished(j) => jobs[j].status \in {"completed", "failed"}

\* C2: once articles were fetched, exceptions raised while processing single
\* articles only add entries to result.errors (at most one per article); the
\* run returns and its Job is marked completed.
C2_BadArticleNeverAborts ==
    \A j \in Jobs :
        (lastRun[j].how # "none" /\ lastRun[j].articles_fetched > 0 /\ lastRun[j].job_found)
        => /\ lastRun[j].how = "returned"
           /\ jobs[j].status = "completed"
           /\ Len(jobs[j].result.errors) <= jobs[j].result.articles_fetched

\* C4: a preview run with mock providers, started on an empty articles table,
\* ends with its Job completed, posts_published = 0 and at least one Post row
\* in status pending.
C4_PreviewRunLeavesPendingPost ==
    \A j \in Jobs :
        ( /\ settings.mock_news_articles /\ settings.mock_x_posts
          /\ lastRun[j].how # "none" /\ lastRun[j].preview_mode /\ lastRun[j].job_found
          /\ \A k \in Jobs : k # j => execs[k] = 0 )
        => /\ jobs[j].status = "completed"
           /\ jobs[j].result.posts_published = 0
           /\ \E i \in 1..Len(posts) :
                 posts[i].job = j /\ posts[i].status = "pending"

\* C6: a pipeline-level failure is re-queued while retries < max_retries with
\* countdown 60 * (retries + 1); a task runs at most max_retries + 1 times for
\* one job; the exception reaches the queue only after the last attempt, and
\* the Job is then failed.
C6_RetryPolicy ==
    /\ \A j \in Jobs : execs[j] <= retry_attempts + 1
    /\ \A e \in retryLog :
          e.retries < retry_attempts /\ e.countdown = 60 * (e.retries + 1)
    /\ \A j \in Jobs :
          lastRun[j].how = "raised"
          => lastRun[j].retries = retry_attempts /\ jobs[j].status = "failed"

\* C7: AdvancedSummarizer.process never propagates an exception of its four
\* stages: it returns the basic summary with verification_status "failed",
\* confidence 0.5 and no facts.
C7_ProcessFallsBack ==
    \A w \in Workers :
        worker[w].summary # NoSummary
        => /\ ~worker[w].summary.raised
           /\ worker[w].summary.stage_error
              => /\ worker[w].summary.verification_status = "failed"
                 /\ worker[w].summary.confidence_score = 5
                 /\ worker[w].summary.facts = <<>>

\* C8: the articles table never holds two rows with the same url or two rows
\* with the same content_hash, whatever the interleaving of concurrent runs.
C8_ArticlesUnique ==
    \A i, k \in 1..Len(articles) :
        i # k => /\ articles[i].url # articles[k].url
                 /\ articles[i].content_hash # articles[k].content_hash

\* Two runs raced on one article: the later insert was rejected.
C8_Witness ==
    /\ Len(articles) >= 1
    /\ \E w \in Workers : "IntegrityError" \in Range(worker[w].results.errors)

\* C9: an article that duplicates a stored Article is skipped and never adds
\* an entry to result.errors, also when two workers process it at once.
C9_DuplicateIsNotAnError ==
    \A w \in Workers : "IntegrityError" \notin Range(worker[w].results.errors)

\* C10: is_duplicate is true when a stored Article has the same url (whatever
\* the content hash), else true when a stored Article has the same
\* content_hash, else false; an article without url is checked by hash only.
C10_IsDuplicate ==
    call.op = "is_duplicate" =>
        LET a == call.article
            same_url == { i \in 1..Len(articles) : articles[i].url = a.url }
            same_hash == { i \in 1..Len(articles) :
                             articles[i].content_hash = a.content_hash }
            has_url == a.url \notin {NoUrl, EmptyUrl}
        IN  /\ (has_url /\ same_url # {}) => call.result = TRUE
            /\ (has_url /\ same_url = {} /\ same_hash # {}) => call.result = TRUE
            /\ (has_url /\ same_url = {} /\ same_hash = {}) => call.result = FALSE
            /\ ~has_url => call.result = (same_hash # {})

\* A stored Article has the url of the checked article and another hash.
C10_Witness ==
    /\ call.op = "is_duplicate"
    /\ call.result = TRUE
    /\ call.article.url \in Urls
    /\ \E i \in 1..Len(articles) : articles[i].url = call.article.url
    /\ \A i \in 1..Len(articles) :
          articles[i].content_hash # call.article.content_hash

\* C11: whenever the chosen post text is longer than 280 characters, whatever
\* the summary length, the url length and the variant, the stored post
\* content is at most 280 characters long and ends with "Source: {url}".
C11_TruncatedFitsLimit ==
    (call.op = "post_content" /\ call.chosen.len > TweetLimit)
    => /\ call.result.len <= TweetLimit
       /\ call.result.tail = "source"

PostTweetOps == {"XAPIClient.post_tweet", "MockXAPIClient.post_tweet"}

Rejected ==
    /\ ~call.raised
    /\ ~call.success
    /\ call.net = 0
    /\ call.sleeps = <<>>
    /\ call.recorded = 0

\* C12 as stated: post_tweet of the real and of the mock client, given a text
\* longer than 280 characters, returns a structured failure without a network
\* call, a sleep, a retry or a recorded request.
C12_LongTextRejected ==
    (call.op \in PostTweetOps /\ call.length > TweetLimit) => Rejected

\* C12 amended: the same, for the mock client and for a real client that has
\* its bearer credential (without it post_tweet raises before any check).
C12_LongTextRejectedWithCredential ==
    (call.op \in PostTweetOps /\ call.length > TweetLimit /\ call.is_available)
    => Rejected

\* The real client, with room left in its limiter, refuses a long text.
C12_Witness ==
    /\ call.op = "XAPIClient.post_tweet"
    /\ call.length > TweetLimit
    /\ call.error = "Tweet too long"

\* C13: can_make_request is true exactly when fewer than max_requests of the
\* recorded timestamps are less than time_window old; wait_time is 0 when a
\* request is allowed, else time_window minus the age of the oldest of them.
C13_LimiterWindow ==
    LET live == { i \in 1..Len(limiter.log) :
                    call.now - limiter.log[i] < LimTimeWindow }
        oldest == CHOOSE i \in live : \A k \in live : limiter.log[i] <= limiter.log[k]
    IN  /\ call.op \in {"can_make_request", "wait_time"}
           => call.allowed = (Cardinality(live) < LimMaxRequests)
        /\ (call.op = "wait_time" /\ call.allowed) => call.result = 0
        /\ (call.op = "wait_time" /\ ~call.allowed)
           => call.result = LimTimeWindow - (call.later - limiter.log[oldest])

\* The limiter, full a moment ago, allows a request again at the very second
\* its oldest record is time_window old.
C13_Witness ==
    /\ call.op = "can_make_request"
    /\ call.allowed
    /\ \E i \in 1..Len(limiter.log) : call.now - limiter.log[i] = LimTimeWindow
    /\ Cardinality({ i \in 1..Len(limiter.log) :
                       call.now - limiter.log[i] <= LimTimeWindow }) >= LimMaxRequests

\* C15: whatever the number of processes sharing the distributed counter, a
\* network fetcher never sends more requests to its provider within one fixed
\* window than its configured maximum (90 per day, 100 per hour).
C15_SharedLimitHolds ==
    \A s \in Services : httpSent[s].count <= MaxRequestsOf(s)

\* The tiers fetch_articles may use with this configuration, in order.
TierOrder(mock_mode, google, newsapi) ==
    IF mock_mode THEN <<"mock">>
    ELSE (IF google THEN <<"google_search">> ELSE <<>>)
         \o (IF newsapi THEN <<"newsapi">> ELSE <<>>)
         \o <<"mock">>

\* C16: fetch_articles never raises; in mock mode it uses the mock fetcher
\* only, otherwise the available tiers in the order search engine, news
\* index, mock: the tiers that raised, followed by the tier whose result is
\* returned, are the first tiers of that order.
C16_FacadeFallsThrough ==
    /\ \A p \in Workers :
          fetcher[p].pc \in {"idle", "check", "send", "record", "mock"}
    /\ call.op = "fetch_articles"
       => LET order == TierOrder(call.mock_mode, call.google, call.newsapi)
              used == Append(call.tried, call.tier)
          IN  /\ Len(used) <= Len(order)
              /\ used = SubSeq(order, 1, Len(used))

\* Both network tiers raised and the mock data was returned.
C16_Witness ==
    /\ call.op = "fetch_articles"
    /\ call.tried = <<"google_search", "newsapi">>
    /\ call.tier = "mock"

\* C17: in the enqueued path of POST /run, once the handler has returned,
\* exactly one Job row was inserted for the request and its stored job_id is
\* the task queue's task id, not the uuid generated first; this stays so
\* whatever the worker does to the row.
C17_EnqueuedRowHoldsTaskId ==
    \A j \in Jobs :
        api[j] = "returned" =>
            /\ jobs[j].status # "absent"
            /\ jobs[j].rows = 1
            /\ jobs[j].job_id = "task_id"
            /\ StoredId(j) # [job |-> j, kind |-> "uuid"]

\* The handler has returned for a job the worker had already picked up and
\* marked running before the rename.
C17_Witness ==
    \E j \in Jobs :
        /\ api[j] = "returned"
        /\ jobs[j].job_id = "task_id"
        /\ jobs[j].status = "running"

\* C18: once POST /run has returned (enqueued path or queue-unavailable
\* path), GET /status/job/{returned job_id} answers 200 with that job_id and
\* the requested niche.
C18_ReturnedIdFindsJob ==
    \A j \in Jobs :
        api[j] \in {"returned", "returned_mock"} =>
            LET id == RunResponse(j).body.job_id
                r  == get_job_status(id)
            IN  /\ r.status_code = 200
                /\ r.body.job_id = id
                /\ r.body.niche = RequestNiche(j)

\* C19: GET /status/job/{id} answers 200, with body job_id equal to id,
\* exactly when a Job row with that job_id exists; for an id stored in no
\* row it answers 404 with detail "Job not found", never 200 or 500.
C19_StatusFoundOrNotFound ==
    call.op = "get_job_status" =>
        /\ call.status_code \in {200, 404}
        /\ (call.status_code = 200) <=> call.stored
        /\ call.status_code = 200 => call.body.job_id = call.id
        /\ ~call.stored => /\ call.status_code = 404
                           /\ call.detail = "Job not found"

\* A status request for the uuid of a request whose row now holds the task
\* id: the identifier is stored in no row.
C19_Witness ==
    /\ call.op = "get_job_status"
    /\ call.id.kind = "uuid"
    /\ ~call.stored
    /\ call.status_code = 404
    /\ \E j \in Jobs : j = call.id.job /\ jobs[j].job_id = "task_id"

\* C20: after any sequence of sequential POST /config/ calls there is exactly
\* one PipelineConfig row, its id is the id answered by the first call (and
\* by every later one), and its fields equal the last payload; GET /config/
\* returns that row, and returns null before any save.
C20_ConfigUpsert ==
    LET n == Len(config.saved) IN
    /\ n = 0 => /\ config.rows = <<>>
                /\ get_config(config).null
    /\ n > 0 => /\ Len(config.rows) = 1
                /\ \A i \in 1..n : config.ids[i] = config.ids[1]
                /\ config.rows[1] = ConfigRow(config.ids[1], config.saved[n])
                /\ get_config(config) = [null |-> FALSE, row |-> config.rows[1]]
    /\ call.op = "get_config" => (call.response.null <=> call.saves = 0)
    /\ call.op = "save_config" =>
            call.response.row = ConfigRow(config.ids[1], call.payload)

\* Two saves with different payloads, then a GET that answers the second.
C20_Witness ==
    /\ Len(config.saved) = 2
    /\ config.saved[1] # config.saved[2]
    /\ call.op = "get_config"
    /\ call.saves = 2
    /\ call.response = [null |-> FALSE,
                        row |-> ConfigRow(config.ids[1], config.saved[2])]

\* C21: GET /status/ reports "degraded" whenever the failed jobs are more
\* than 10% of all jobs (also when more than 10 jobs are active), "busy" when
\* more than 10 jobs are pending or running and the failed share is at most
\* 10%, and "healthy" otherwise, including on an empty table.
C21_HealthPrecedence ==
    call.op = "get_system_status" =>
        LET total == call.pending + call.running + call.completed + call.failed
            active == call.pending + call.running
            degraded == 10 * call.failed > total
        IN  /\ degraded => call.system_health = "degraded"
            /\ (~degraded /\ active > 10) => call.system_health = "busy"
            /\ (~degraded /\ active <= 10) => call.system_health = "healthy"
            /\ total = 0 => call.system_health = "healthy"

\* More than 10 active jobs and more than 10% failed at once: degraded.
C21_Witness ==
    /\ call.op = "get_system_status"
    /\ call.pending + call.running > 10
    /\ 10 * call.failed
          > call.pending + call.running + call.completed + call.failed
    /\ call.system_health = "degraded"

\* C22: the mock summarizer returns the same output for the same (title,
\* content, tone), and for one title and content the outputs for the tones
\* professional, casual and creative are pairwise distinct.
C22_TonesDistinct ==
    (call.op = "MockLLMAdapter.summarize_article" /\ call.prev.tone # None
     /\ call.prev.title_byte = call.title_byte
     /\ call.prev.content = call.content) =>
        /\ call.prev.tone = call.tone => call.prev.result = call.result
        /\ call.prev.tone # call.tone => call.prev.result # call.result

RECURSIVE SumImpressions(_, _)
SumImpressions(variants, i) ==
    IF i = 0 THEN 0
    ELSE SumImpressions(variants, i - 1) + variants[i].impressions

\* C23: generate_variants returns exactly 5 variants, one per strategy, with
\* weight 1.0 and zero counters; run_experiment on a known id adds 1 to the
\* impressions of exactly the variant it returns and changes no other
\* counter, so an experiment's impressions sum to the run_experiment calls
\* made on it; on an unknown id it returns a fresh variant and changes no
\* experiment.
C23_ImpressionsCountRuns ==
    /\ call.op = "create_experiment" =>
          /\ Len(call.generated) = 5
          /\ { call.generated[i].strategy : i \in 1..5 } = Strategies
          /\ \A i \in 1..5 :
                /\ call.generated[i].weight = 1
                /\ call.generated[i].impressions = 0
                /\ call.generated[i].clicks = 0
                /\ call.generated[i].conversions = 0
                /\ call.generated[i].content =
                      create_variant(call.content, call.generated[i].strategy)
    /\ (call.op = "run_experiment" /\ call.known) =>
          /\ call.result = call.after[call.id][call.index]
          /\ \A e \in ExperimentIds : \A i \in 1..Len(call.before[e]) :
                call.after[e][i] =
                    IF e = call.id /\ i = call.index
                    THEN [call.before[e][i] EXCEPT !.impressions = @ + 1]
                    ELSE call.before[e][i]
    /\ (call.op = "run_experiment" /\ ~call.known) =>
          /\ call.after = call.before
          /\ call.result = Variant(call.content, "casual_tone")
    /\ \A e \in ExperimentIds :
          engine.experiments[e].exists =>
              SumImpressions(engine.experiments[e].variants,
                             Len(engine.experiments[e].variants))
                  = engine.experiments[e].runs

\* Three runs on one experiment, not all on the same variant, after a click.
C23_Witness ==
    /\ call.op = "run_experiment"
    /\ call.known
    /\ engine.experiments[call.id].runs = 3
    /\ call.after[call.id][call.index].impressions = 1
    /\ \E i \in 1..5 : engine.experiments[call.id].variants[i].clicks = 1

\* C24: the worker task finds the Job row by the job_id argument it was
\* enqueued with, and the row is marked running, in every interleaving of the
\* task's start with the handler's second commit.
C24_WorkerFindsJob ==
    \A w \in Workers :
        worker[w].pc # "idle" =>
            /\ worker[w].job_found
            /\ jobs[worker[w].job].started_at

\* A call of the real client that gets as far as sending: credential
\* present, limiter not exhausted, text within the limit.
Sending ==
    /\ call.op = "XAPIClient.post_tweet"
    /\ call.is_available
    /\ call.length <= TweetLimit
    /\ call.error # "Rate limit exceeded"

\* C25: for any sequence of platform responses, post_tweet with retry count
\* R sends at most R requests and always returns a structured result; a 201
\* ends the call with success after that request, a 403 ends it with a
\* failure after that request, and a 429 is retried after sleeping
\* min(retry_after, 60) seconds until the R-th attempt, whose failure carries
\* the advisory retry_after.
C25_RetriesAndResults ==
    Sending =>
        /\ ~call.raised
        /\ call.net <= call.retry_count
        /\ \A k \in 1..call.net :
              /\ call.responses[k].kind \in {"201", "403"} => call.net = k
              /\ (k < call.net /\ call.responses[k].kind = "429") =>
                    call.sleeps[k] =
                        Min(ParseRetryAfter(call.responses[k].retry_after),
                            MaxRetrySleep) * 10
        /\ call.success <=>
              (call.net >= 1 /\ call.responses[call.net].kind = "201")
        /\ (call.net = call.retry_count
            /\ call.responses[call.net].kind = "429") =>
              /\ call.error = "Rate limited by X API"
              /\ call.retry_after =
                    ParseRetryAfter(call.responses[call.net].retry_after)

\* Every attempt of the call fails with another status, a timeout or a
\* network exception.
BackoffKinds == {"500", "Timeout", "RequestException"}

AllAttemptsFail ==
    /\ Sending
    /\ \A k \in 1..call.retry_count : call.responses[k].kind \in BackoffKinds

C27_SentWithinLimit ==
    (call.op = "XAPIClient.post_tweet" /\ call.started = 0) =>
        call.prior + call.net <= XMaxRequests

\* C29: for a single caller, is_allowed lets through exactly max_requests
\* calls per key (the first sets the key to 1 with expiry window_seconds, the
\* later ones increment it) and refuses every further call while the key is
\* there; when the store raises, is_allowed returns true and
\* get_retry_after returns 0.
C29_FixedWindowSingleCaller ==
    /\ ratekey.value # NoKey =>
          /\ ratekey.value = ratekey.granted
          /\ ratekey.value \in 1..SecMaxRequests
    /\ (call.op = "is_allowed" /\ ~call.raised) =>
          /\ call.result <=> call.seen.granted < SecMaxRequests
          /\ (call.result /\ call.seen.value = NoKey) =>
                /\ call.before.value = NoKey
                /\ call.after = [value |-> 1, ttl |-> SecWindowSeconds,
                                 granted |-> 1]
          /\ (call.result /\ call.seen.value # NoKey /\ call.before.value # NoKey) =>
                /\ call.after.value = call.before.value + 1
                /\ call.after.ttl = call.before.ttl
          /\ ~call.result => call.after = call.before
    /\ (call.op = "is_allowed" /\ call.raised) =>
          /\ call.result
          /\ call.after = call.before
    /\ (call.op = "get_retry_after" /\ call.raised) => call.result = 0

\* The call after max_requests granted ones is refused, the key untouched.
C29_Witness ==
    /\ call.op = "is_allowed"
    /\ ~call.raised
    /\ ~call.result
    /\ call.seen.granted = SecMaxRequests
    /\ call.before.ttl > 0
    /\ ratekey = call.before

\* C30: every counter key written by is_allowed carries an expiry, also when
\* the key expires between the GET and the INCR of one call or when two
\* callers run is_allowed on the same key at once; so a key at max_requests
\* is allowed again later and get_retry_after reports its remaining time.
C30_KeysCarryExpiry ==
    /\ ratekey.value # NoKey => ratekey.ttl > 0
    /\ (call.op = "get_retry_after" /\ ~call.raised
        /\ call.before.value # NoKey) => call.result > 0

\* C31: the active-task gauge and the number of open database sessions
\* always equal the number of executions of fetch_and_post in progress,
\* whatever the outcome of each execution (returned, retried, failed for
\* good); with none in progress both are back at their initial value.
C31_GaugeCountsExecutions ==
    LET running == Cardinality({ w \in Workers : worker[w].pc # "idle" }) IN
    /\ metrics.active_tasks = running
    /\ metrics.db_sessions = running

\* A pipeline failure was retried and the last retry has failed for good;
\* no execution is in progress and the gauge is at 0.
C31_Witness ==
    /\ \A w \in Workers : worker[w].pc = "idle"
    /\ retryLog # {}
    /\ \E j \in Jobs : /\ lastRun[j].how = "raised"
                        /\ lastRun[j].retries = retry_attempts
    /\ metrics.active_tasks = 0
    /\ metrics.db_sessions = 0

\* C32: rank_articles returns a permutation of its input ordered by
\* rank_score from highest to lowest, equal scores in arrival order; the
\* selection is the first 5 of it, so it holds at most 5 articles and no
\* article left out scores strictly higher than a selected one.
C32_RankedAndSelected ==
    call.op = "rank_articles" =>
       LET input == call.articles
           ranked == call.ranked_articles
           selected == call.selected_articles
       IN
       /\ Len(ranked) = Len(input)
       /\ \A i \in 1..Len(input) : \E k \in 1..Len(ranked) : ranked[k] = input[i]
       /\ \A i, k \in 1..Len(ranked) :
             i < k => \/ ranked[i].rank_score > ranked[k].rank_score
                      \/ /\ ranked[i].rank_score = ranked[k].rank_score
                         /\ ranked[i].arrival < ranked[k].arrival
       /\ Len(selected) = Min(SelectLimit, Len(ranked))
       /\ \A i \in 1..Len(selected) : selected[i] = ranked[i]
       /\ \A k \in 1..Len(ranked) :
             ~(\E i \in 1..Len(selected) : selected[i] = ranked[k]) =>
                \A i \in 1..Len(selected) :
                   ranked[k].rank_score <= selected[i].rank_score

\* More than 5 articles, arriving lowest score first and with a tie: the
\* ranking reorders them and the selection leaves one out.
C32_Witness ==
    /\ call.op = "rank_articles"
    /\ Len(call.articles) > SelectLimit
    /\ call.articles[1].rank_score < call.articles[2].rank_score
    /\ call.articles[2].rank_score = call.articles[3].rank_score
    /\ call.ranked_articles # call.articles
    /\ Len(call.selected_articles) = SelectLimit

\* C34: an article whose processing failed after its Article row was
\* committed is processed again by a later run or retry for the same niche:
\* with no other execution in progress, a run never skips as a duplicate an
\* article whose stored row, written by a run for the same niche, has no
\* Post.
C34_FailedArticleProcessedAgain ==
    [][\A w \in Workers :
         (/\ worker[w].pc = "check"
          /\ worker'[w].skipped = worker[w].skipped + 1
          /\ \A v \in Workers \ {w} : worker[v].pc = "idle")
         => LET a == Head(worker[w].selected) IN
            \A i \in 1..Len(articles) :
               (/\ articles[i].niche = RequestNiche(worker[w].job)
                /\ \/ articles[i].url = a.url
                   \/ articles[i].content_hash = a.content_hash)
               => \E p \in 1..Len(posts) :
                     posts[p].article_url = articles[i].url]_vars

C36_JobFieldsAgree ==
    \A j \in Jobs :
        /\ jobs[j].completed_at => jobs[j].status \in {"completed", "failed"}
        /\ jobs[j].error_message # None => jobs[j].status = "failed"

\* C37: a POST /run that fails with a 500 because importing or enqueuing the
\* task raised leaves no Job row behind.
C37_FailedRunLeavesNoJob ==
    \A j \in Jobs : api[j] = "error_500" => jobs[j].status = "absent"

\* C40: whenever no POST /run handler is between its commits, the API's
\* active-jobs gauge equals the number of Job rows in status pending or
\* running (the rows of handlers that answered 500 set aside).
C40_ActiveJobsGauge ==
    (\A j \in Jobs : api[j] # "enqueued") =>
        metrics.active_jobs =
            Cardinality({ j \in Jobs : /\ api[j] # "error_500"
                                       /\ jobs[j].status \in {"pending", "running"} })

\* C39: the duplicate-articles-skipped counter equals the number of selected
\* articles that pipeline runs have skipped as duplicates: one per skip.
C39_OneCountPerSkip ==
    metrics.duplicate_articles_skipped_total = metrics.skipped

\* C38: for every variant strategy that can be drawn, the post content
\* stored and handed to the poster ends with the line "Source: {url}"
\* verbatim, whether or not the text was truncated.
C38_EndsWithSourceLine ==
    call.op = "post_content" => call.result.tail = "source"

====
